---- MODULE Spec2Model ----
(***************************************************************************)
(* A model of the stock-news pipeline: collectors and global               *)
(* deduplication, the impact analyzer, the ranker, the translator, the     *)
(* orchestrator StockNewsPipeline.run_complete_pipeline and the threads    *)
(* that trigger it (scheduler job, run_immediate, API handlers).           *)
(*                                                                         *)
(* Python dicts are functions with a string domain, read with Get (the     *)
(* dict.get of the source).  Strings whose characters the code inspects    *)
(* (titles, urls, source names) are tuples of one-character strings.       *)
(* Responses of the language model are records of the features the         *)
(* parsers inspect.                                                        *)
(***************************************************************************)
EXTENDS Integers, Sequences, FiniteSets, TLC

VARIABLES
    \* ---- the orchestrator and its callers (specification Spec)
    pc,            \* pc[t]: where thread t is inside run_complete_pipeline
    raw,           \* raw[t]: the local raw_articles of t's run
    stages,        \* stages[t]: the stages t's current/last run has invoked, in
                   \* order, each with the number of items it returned
    model_calls,   \* model_calls[t]: model calls of t's current/last run, per kind
    fetched,       \* fetched[t]: the collectors returned some article in t's run
    high_seen,     \* high_seen[t]: the model scored one of the first 50 articles
                   \* of t's run at or above the minimum
    ret,           \* ret[t]: what t's last completed run returned (None before)
    last_results,  \* last_results[p]: StockNewsPipeline.last_results of pipeline p
    last_run,      \* last_run[p]: StockNewsPipeline.last_run (the run's number)
    completed,     \* completed[p]: the result of the run that completed last on p
    runs,          \* number of runs started so far
    is_running,    \* NewsScheduler.is_running
    \* ---- the analyzer applied to drawn inputs (specification SpecAnalyzer)
    an_articles,   \* the batch given to analyze_multiple_articles
    an_backends,   \* an_backends[i]: what the backend does for an_articles[i]
    an_parsed,     \* an_parsed[i]: what _parse_analysis_response built for article i
    an_out,        \* what analyze_multiple_articles returned
    an_done,
    \* ---- the ranker applied to drawn inputs (specification SpecRanker)
    rk_in,         \* the list given to rank_articles
    rk_backend,    \* what the backend does on the ranking call
    rk_fails,      \* the try block of _glm_rank_articles raises
    rk_out,        \* what rank_articles returned
    rk_done,
    \* ---- global deduplication applied to drawn inputs (specification SpecDedup)
    dd_in,         \* the list given to _remove_global_duplicates
    dd_out,        \* its output
    dd_again,      \* the output of _remove_global_duplicates applied to dd_out
    dd_done,       \* how many times it has been applied
    \* ---- the collector manager applied to drawn collectors (specification SpecCollect)
    cl_names,      \* class names of the registered collectors, in order
    cl_outcomes,   \* cl_outcomes[i]: what collect_news of collector i does
    cl_own,        \* cl_own[i]: the state collector i's own status method reports
    cl_all,        \* what collect_all_news returned
    cl_stats,      \* collection_stats
    cl_unique,     \* what _collect_news returned
    cl_status,     \* what get_all_status returned (None before the query)
    cl_done,       \* collection has run
    \* ---- the translator applied to drawn inputs (specification SpecTranslate)
    tr_in,         \* the list given to translate_ranked_news
    tr_backends,   \* tr_backends[i]: what the backend does on the call for article i
    tr_out,        \* what translate_ranked_news returned
    tr_done,
    tr_message,    \* the bulletin format_final_message built, None before
    \* ---- run_complete_pipeline over drawn stage results (specification SpecStages)
    st_outcomes,   \* st_outcomes[i]: what collect_news of collector i does in the run
    st_raw,        \* what _collect_news returned in the run
    st_analyzed,   \* what _analyze_articles returns in the run
    st_rank,       \* what the ranking stage meets
    st_trans,      \* what the translating stage meets
    st_result,     \* what run_complete_pipeline returned (None before)
    st_done,
    \* ---- the scheduler and its loop threads (specification SpecScheduler)
    sc_is_running, \* NewsScheduler.is_running
    sc_jobs,       \* schedule.jobs: the registered jobs, in order of registration
    sc_due,        \* the jobs whose time has come and that have not completed a
                   \* run since, each with the number of the trigger
    sc_thread,     \* sc_thread[i]: the loop thread the i-th start created
    sc_calls,      \* calls of start_scheduler and stop_scheduler made so far
    sc_triggers,   \* scheduled times that have arrived so far
    sc_log,        \* sc_log[n]: what trigger n has caused
    \* ---- MultiLLMManager and its WebSearchManager (specification SpecLLM)
    ll_primary,    \* what the primary provider is: "absent" or the Mistral client
    ll_langchain,  \* whether the LangChain provider was registered
    ll_search,     \* whether self.web_search exists and is enabled
    ll_cache,      \* WebSearchManager.cache: key -> [context, timestamp]
    ll_now,        \* datetime.now(), in half hours
    ll_in,         \* the articles of the last call
    ll_out,        \* what the last call returned
    ll_log,        \* the cache lookups and searches of the last call, in order
    \* ---- the API server's news cache (specification SpecApi)
    ap_now,        \* datetime.now(), in units of 5 minutes
    ap_cache,      \* news_cache
    ap_runs,       \* pipeline runs the API has started so far
    ap_requests,   \* requests answered so far
    ap_fresh,      \* the last successful run: when, and what it analyzed
    ap_resp        \* the last response

plVars == <<pc, raw, stages, model_calls, fetched, high_seen, ret, last_results,
            last_run, completed, runs, is_running>>
anVars == <<an_articles, an_backends, an_parsed, an_out, an_done>>
rkVars == <<rk_in, rk_backend, rk_fails, rk_out, rk_done>>
ddVars == <<dd_in, dd_out, dd_again, dd_done>>
clVars == <<cl_names, cl_outcomes, cl_own, cl_all, cl_stats, cl_unique, cl_status,
            cl_done>>
trVars == <<tr_in, tr_backends, tr_out, tr_done, tr_message>>
stVars == <<st_outcomes, st_raw, st_analyzed, st_rank, st_trans, st_result, st_done>>
scVars == <<sc_is_running, sc_jobs, sc_due, sc_thread, sc_calls, sc_triggers, sc_log>>
llVars == <<ll_primary, ll_langchain, ll_search, ll_cache, ll_now, ll_in, ll_out, ll_log>>
apVars == <<ap_now, ap_cache, ap_runs, ap_requests, ap_fresh, ap_resp>>
vars == <<plVars, anVars, rkVars, ddVars, clVars, trVars, stVars, scVars, llVars, apVars>>

-----------------------------------------------------------------------------
(* Bounds of the model *)

\* runs started in one behaviour
MaxRuns == 3
\* articles in a drawn deduplication input
MaxDedupLen == 4
\* articles in a drawn analyzer batch
MaxBatch == 6
\* articles in a drawn ranker input
MaxRankIn == 16
\* lines in a drawn ranking response
MaxLines == 3
\* articles in a drawn translator input
MaxTranslate == 3
\* articles a drawn collecting stage returns
MaxStageIn == 11
\* calls of start_scheduler and of stop_scheduler in one behaviour, each
MaxCalls == 2
\* scheduled times that arrive in one behaviour
MaxTriggers == 2
\* half hours that pass in one behaviour of the web-search cache
MaxClock == 3
\* requests the API answers in one behaviour
MaxRequests == 3
\* periods of five minutes that pass in one behaviour of the API
MaxApiClock == 4

(* Program constants *)

MIN_IMPACT_SCORE == 5
MAX_SCORE == 10
MAX_LARGE_CAP_BONUS == 2
MIN_TITLE_LEN == 10
ANALYZE_LIMIT == 50
RANK_CANDIDATES == 15
RANK_TOP == 10
TRANSLATE_TOP == 10

-----------------------------------------------------------------------------
(* Python values *)

None == [is_none |-> TRUE]
IsNone(v) == "is_none" \in DOMAIN v

\* dict.get(key, default)
Get(d, k, default) == IF k \in DOMAIN d THEN d[k] ELSE default

\* seq[:n]
Take(s, n) == SubSeq(s, 1, IF Len(s) < n THEN Len(s) ELSE n)

Min(a, b) == IF a < b THEN a ELSE b

UpperCase == <<"A","B","C","D","E","F","G","H","I","J","K","L","M",
               "N","O","P","Q","R","S","T","U","V","W","X","Y","Z">>
LowerCase == <<"a","b","c","d","e","f","g","h","i","j","k","l","m",
               "n","o","p","q","r","s","t","u","v","w","x","y","z">>

Letters == {UpperCase[i] : i \in 1..26} \cup {LowerCase[i] : i \in 1..26}
Characters == Letters \cup {" ", "/", "1", "2", "3", "4", "5", "6"}

\* the lower-case form of every character
lower_char ==
    [c \in Characters |->
        IF \E i \in 1..26 : UpperCase[i] = c
        THEN LowerCase[CHOOSE i \in 1..26 : UpperCase[i] = c]
        ELSE c]

\* str.lower()
str_lower(s) == [i \in 1..Len(s) |-> lower_char[s[i]]]

\* str.strip(): leading and trailing blanks removed
str_strip(s) ==
    LET inked == {i \in 1..Len(s) : s[i] # " "}
    IN  IF inked = {} THEN <<>>
        ELSE LET lo == CHOOSE i \in inked : \A j \in inked : i <= j
                 hi == CHOOSE i \in inked : \A j \in inked : j <= i
             IN  SubSeq(s, lo, hi)

\* needle in haystack (substring)
str_contains(hay, needle) ==
    \E i \in 0..(Len(hay) - Len(needle)) :
        \A j \in 1..Len(needle) : hay[i + j] = needle[j]

-----------------------------------------------------------------------------
(* Articles *)

TitleApple    == <<"A","p","p","l","e"," ","b","e","a","t","s">>
TitleAppleUp  == <<" ","A","P","P","L","E"," ","B","E","A","T","S"," ">>
TitleFed      == <<"F","e","d"," ","h","o","l","d","s"," ","r","a","t","e","s">>
TitleShort    == <<"S","h","o","r","t">>
TitleShortPad == <<" "," "," ","S","h","o","r","t"," "," "," "," ">>

Url1   == <<"u","/","1">>
Url1Up == <<"U","/","1"," ">>
Url2   == <<"u","/","2">>
Url3   == <<"u","/","3">>

SrcReuters == <<"R","e","u","t","e","r","s">>
SrcBlog    == <<"B","l","o","g">>
SrcCnbcWsj == <<"C","N","B","C","/","W","S","J">>

Article(t, u, s) == [title |-> t, url |-> u, source |-> s]

ArtApple    == Article(TitleApple, Url1, SrcReuters)
ArtAppleUp  == Article(TitleAppleUp, Url2, SrcBlog)
ArtFed      == Article(TitleFed, Url2, SrcCnbcWsj)
ArtFedUrl1  == Article(TitleFed, Url1Up, SrcBlog)
ArtShort    == Article(TitleShort, Url3, SrcBlog)
ArtShortPad == Article(TitleShortPad, Url3, SrcReuters)
\* an article whose dict has no 'url' key
ArtNoUrl    == [title |-> TitleFed, source |-> SrcBlog]

ArticlePool == {ArtApple, ArtAppleUp, ArtFed, ArtFedUrl1, ArtShortPad, ArtNoUrl}

-----------------------------------------------------------------------------
(* StockNewsPipeline._remove_global_duplicates *)

norm_title(article) == str_strip(str_lower(Get(article, "title", <<>>)))
norm_url(article)   == str_strip(str_lower(Get(article, "url", <<>>)))

\* a variant of DedupSkip that does not look at the URLs
DedupSkipTitleOnly(seen_titles, seen_urls, article) ==
    \/ norm_title(article) \in seen_titles
    \/ Len(norm_title(article)) < MIN_TITLE_LEN

\* the loop's skip test
DedupSkip(seen_titles, seen_urls, article) ==
    \/ norm_title(article) \in seen_titles
    \/ norm_url(article) \in seen_urls
    \/ Len(norm_title(article)) < MIN_TITLE_LEN

\* unique_articles.insert(0, article): a variant of DedupKeep that builds the list backwards
DedupKeepFront(unique_articles, article) == <<article>> \o unique_articles

\* unique_articles.append(article)
DedupKeep(unique_articles, article) == Append(unique_articles, article)

RECURSIVE DedupLoop(_, _, _, _)
DedupLoop(articles, seen_titles, seen_urls, unique_articles) ==
    IF articles = <<>> THEN unique_articles
    ELSE LET article == Head(articles)
         IN  IF DedupSkip(seen_titles, seen_urls, article)
             THEN DedupLoop(Tail(articles), seen_titles, seen_urls, unique_articles)
             ELSE DedupLoop(Tail(articles),
                            seen_titles \cup {norm_title(article)},
                            seen_urls \cup {norm_url(article)},
                            DedupKeep(unique_articles, article))

remove_global_duplicates(articles) == DedupLoop(articles, {}, {}, <<>>)

-----------------------------------------------------------------------------
(* NewsCollectorManager.collect_all_news: an outcome of one collector is    *)
(* [raised |-> BOOLEAN, articles |-> what collect_news returned]            *)

Outcome(r, a) == [raised |-> r, articles |-> a]

\* a variant of collect_all_news in which a raising collector ends the loop
RECURSIVE collect_all_news_until_raise(_)
collect_all_news_until_raise(outcomes) ==
    IF outcomes = <<>> THEN <<>>
    ELSE LET o == Head(outcomes)
         IN  IF o.raised THEN <<>>
             ELSE o.articles \o collect_all_news_until_raise(Tail(outcomes))

RECURSIVE collect_all_news(_)
collect_all_news(outcomes) ==
    IF outcomes = <<>> THEN <<>>
    ELSE LET o == Head(outcomes)
         IN  (IF o.raised THEN <<>> ELSE o.articles) \o collect_all_news(Tail(outcomes))

\* collection_results[collector_name] of one collector
collection_result(o) ==
    IF o.raised THEN [status |-> "error", error |-> "raised", count |-> 0]
    ELSE [status |-> "success", count |-> Len(o.articles), articles |-> o.articles]

\* collection_stats after collect_all_news: a dict keyed by the collectors'
\* class names, here the sequence of <<name, result>> in the order of insertion
collection_stats(names, outcomes) ==
    [i \in 1..Len(names) |-> <<names[i], collection_result(outcomes[i])>>]

\* StockNewsPipeline._collect_news
collect_news(outcomes) == remove_global_duplicates(collect_all_news(outcomes))

-----------------------------------------------------------------------------
(* GLMClient.call_glm.  What the backend (_call_llm) does on one call is    *)
(* [raised |-> BOOLEAN, text |-> the response]; call_glm answers a raising  *)
(* backend with _mock_response(prompt), chosen by words of the prompt.      *)

Backend(r, t) == [raised |-> r, text |-> t]

\* analysis responses: no '{...}' in the text, a brace span json.loads rejects,
\* or a JSON object (a dict)
NoJson        == [kind |-> "no_json"]
Malformed     == [kind |-> "malformed"]
JsonObject(d) == [kind |-> "object", data |-> d]

\* a ranking response is a sequence of lines; a line is what the parser looks at:
\*   shape "other"    does not start with 'Rank '
\*   shape "no_close" starts with 'Rank ' and has no ']'
\*   shape "no_open"  has ']' and no '[' before it        (IndexError)
\*   shape "nan"      the text after '[' is no integer    (ValueError)
\*   shape "rank"     'Rank n: Article [idx] - reason'
\* n is the rank written in the line, reason names the text after ']'
RankLine(n, idx)  == [shape |-> "rank", n |-> n, idx |-> idx, reason |-> n]
OtherLine         == [shape |-> "other", n |-> 0, idx |-> 0, reason |-> 0]
NanLine           == [shape |-> "nan", n |-> 1, idx |-> 0, reason |-> 1]
NoOpenLine        == [shape |-> "no_open", n |-> 1, idx |-> 0, reason |-> 1]
NoCloseLine       == [shape |-> "no_close", n |-> 1, idx |-> 0, reason |-> 1]

\* a translation response is a text: a sequence of characters, each one of
\*   "T"  a Thai letter          "a"  any other printing character
\*   "|"  the field separator    "Q"  a double quote
\*   " "  a blank                "NL" a line break
\*   "M1" .. "M10"  the marker text '[1.]' .. '[10.]', taken as a unit
MarkerText == <<"M1", "M2", "M3", "M4", "M5", "M6", "M7", "M8", "M9", "M10">>
Marker(rank) == MarkerText[rank]

MockAnalysis ==
    JsonObject([tickers |-> <<"AAPL", "MSFT">>, impact_score |-> 7])

\* _mock_response for a prompt that contains "impact score": the analysis prompt
\* and the ranking prompt ("Impact Score: Higher scores should rank higher") both do
mock_response_analysis == MockAnalysis
\* json.dumps gives one line, which does not start with 'Rank '
mock_response_ranking == <<OtherLine>>

call_glm_analysis(backend) ==
    IF backend.raised THEN mock_response_analysis ELSE backend.text

\* the translation prompt contains "Impact Score: n/10", so a raising backend is
\* answered with the same JSON text: one line without marker, with quoted keys
mock_response_translation ==
    <<"a", "Q", "a", "Q", "a", " ", "a", "Q", "a", "Q", "a">>

call_glm_translation(backend) ==
    IF backend.raised THEN mock_response_translation ELSE backend.text

call_glm_ranking(backend) ==
    IF backend.raised THEN mock_response_ranking ELSE backend.text

-----------------------------------------------------------------------------
(* NewsImpactAnalyzer *)

LARGE_CAP_STOCKS ==
    {"AAPL", "MSFT", "GOOGL", "GOOG", "AMZN", "META", "NVDA", "TSLA",
     "JPM", "V", "PG", "JNJ", "WMT", "UNH", "HD", "MA", "BAC", "XOM",
     "CVX", "LLY", "ABBV", "PFE", "KO", "PEP", "TMO", "AVGO", "COST",
     "CRM", "ACN", "NKE", "ADBE", "TXN", "NFLX", "CMCSA", "INTC",
     "AMD", "PYPL", "DIS", "VZ", "CSCO"}

Bloomberg == <<"b","l","o","o","m","b","e","r","g">>
Reuters   == <<"r","e","u","t","e","r","s">>
Wsj       == <<"w","s","j">>
Cnbc      == <<"c","n","b","c">>
YahooFin  == <<"y","a","h","o","o"," ","f","i","n","a","n","c","e">>
reliable_sources == {Bloomberg, Reuters, Wsj, Cnbc, YahooFin}

large_cap_count(tickers) ==
    Cardinality({i \in 1..Len(tickers) : tickers[i] \in LARGE_CAP_STOCKS})

\* a variant of calculate_combined_score that adds the source bonus once for
\* every keyword the source name contains
calculate_combined_score_per_keyword(analysis, article) ==
    LET base_score == Get(analysis, "impact_score", 5)
        n == large_cap_count(Get(analysis, "tickers", <<>>))
        boosted == base_score + (IF n > 0 THEN Min(n, MAX_LARGE_CAP_BONUS) ELSE 0)
        source == str_lower(Get(article, "source", <<>>))
        matches == Cardinality({rel \in reliable_sources : str_contains(source, rel)})
    IN  Min(boosted + matches, MAX_SCORE)

calculate_combined_score(analysis, article) ==
    LET base_score == Get(analysis, "impact_score", 5)
        n == large_cap_count(Get(analysis, "tickers", <<>>))
        boosted == base_score + (IF n > 0 THEN Min(n, MAX_LARGE_CAP_BONUS) ELSE 0)
        source == str_lower(Get(article, "source", <<>>))
        reliable == \E rel \in reliable_sources : str_contains(source, rel)
    IN  Min(boosted + (IF reliable THEN 1 ELSE 0), MAX_SCORE)

parse_analysis_response(response, article) ==
    IF response.kind # "object" THEN None
    ELSE [original_article |-> article,
          analysis |-> response.data,
          combined_score |-> calculate_combined_score(response.data, article)]

\* `analysis and analysis.get('impact_score', 0) >= MIN_IMPACT_SCORE`, where
\* analysis is the combined dict parse_analysis_response built
PassesThreshold(analysis) ==
    /\ ~IsNone(analysis)
    /\ Get(analysis, "impact_score", 0) >= MIN_IMPACT_SCORE

analyze_single_article(article, backend) ==
    LET response == call_glm_analysis(backend)
        analysis == parse_analysis_response(response, article)
    IN  IF PassesThreshold(analysis) THEN analysis ELSE None

\* backends[i] is what the backend does on the call for articles[i]
RECURSIVE analyze_multiple_articles(_, _)
analyze_multiple_articles(articles, backends) ==
    IF articles = <<>> THEN <<>>
    ELSE LET analysis == analyze_single_article(Head(articles), Head(backends))
             rest == analyze_multiple_articles(Tail(articles), Tail(backends))
         IN  IF IsNone(analysis) THEN rest ELSE <<analysis>> \o rest

\* StockNewsPipeline._analyze_articles
analyze_articles(articles, backends) ==
    analyze_multiple_articles(Take(articles, ANALYZE_LIMIT),
                              Take(backends, ANALYZE_LIMIT))

-----------------------------------------------------------------------------
(* NewsRanker *)

score_of(x) == Get(x, "combined_score", 0)

\* a variant of InsertByScore without reverse=True: ascending
RECURSIVE InsertByScoreAscending(_, _)
InsertByScoreAscending(sorted, x) ==
    IF sorted = <<>> THEN <<x>>
    ELSE IF score_of(Head(sorted)) <= score_of(x)
         THEN <<Head(sorted)>> \o InsertByScoreAscending(Tail(sorted), x)
         ELSE <<x>> \o sorted

\* sorted(articles, key=combined_score, reverse=True): stable, so equal scores
\* keep their order
RECURSIVE InsertByScore(_, _)
InsertByScore(sorted, x) ==
    IF sorted = <<>> THEN <<x>>
    ELSE IF score_of(Head(sorted)) >= score_of(x)
         THEN <<Head(sorted)>> \o InsertByScore(Tail(sorted), x)
         ELSE <<x>> \o sorted

RECURSIVE sort_by_score_desc(_)
sort_by_score_desc(articles) ==
    IF articles = <<>> THEN <<>>
    ELSE InsertByScore(sort_by_score_desc(SubSeq(articles, 1, Len(articles) - 1)),
                       articles[Len(articles)])

\* list.sort(key=glm_rank): stable, ascending
RECURSIVE InsertByRank(_, _)
InsertByRank(sorted, x) ==
    IF sorted = <<>> THEN <<x>>
    ELSE IF Head(sorted).glm_rank <= x.glm_rank
         THEN <<Head(sorted)>> \o InsertByRank(Tail(sorted), x)
         ELSE <<x>> \o sorted

RECURSIVE sort_by_glm_rank(_)
sort_by_glm_rank(articles) ==
    IF articles = <<>> THEN <<>>
    ELSE InsertByRank(sort_by_glm_rank(SubSeq(articles, 1, Len(articles) - 1)),
                      articles[Len(articles)])

\* the loop over the response's lines: articles[article_index] gets
\* glm_rank = len(ranking_mapping) + 1 and the line's reasoning; ranking_mapping
\* is kept as the set of its keys
RECURSIVE RankingLoop(_, _, _)
RankingLoop(lines, articles, ranking_mapping) ==
    IF lines = <<>> THEN articles
    ELSE LET line == Head(lines)
             article_index == line.idx - 1
         IN  IF line.shape = "rank" /\ 0 <= article_index /\ article_index < Len(articles)
             THEN RankingLoop(
                    Tail(lines),
                    [articles EXCEPT ![article_index + 1] =
                        [k \in DOMAIN @ \cup {"glm_rank", "glm_reasoning"} |->
                            IF k = "glm_rank" THEN Cardinality(ranking_mapping) + 1
                            ELSE IF k = "glm_reasoning" THEN line.reason
                            ELSE @[k]]],
                    ranking_mapping \cup {article_index})
             ELSE RankingLoop(Tail(lines), articles, ranking_mapping)

HasGlmRank(article) == "glm_rank" \in DOMAIN article
HasNoGlmRank(article) == "glm_rank" \notin DOMAIN article

\* final_ranked = unranked_articles + ranked_articles: a variant of CombineRanked
CombineRankedLast(ranked_articles, unranked_articles) ==
    unranked_articles \o ranked_articles

\* final_ranked = ranked_articles + unranked_articles
CombineRanked(ranked_articles, unranked_articles) ==
    ranked_articles \o unranked_articles

parse_ranking_response(response, articles) ==
    LET marked == RankingLoop(response, articles, {})
        ranked_articles == sort_by_glm_rank(SelectSeq(marked, HasGlmRank))
        unranked_articles == sort_by_score_desc(SelectSeq(marked, HasNoGlmRank))
    IN  CombineRanked(ranked_articles, unranked_articles)

\* fails: something inside the try block raised (building the prompt text);
\* the except branch returns the score ordering
glm_rank_articles(articles, backend, fails) ==
    IF fails THEN sort_by_score_desc(articles)
    ELSE parse_ranking_response(call_glm_ranking(backend), articles)

\* final_ranked[:10]
\* a variant of RankTruncate that returns the whole list
RankTruncateNone(final_ranked) == final_ranked

RankTruncate(final_ranked) == Take(final_ranked, RANK_TOP)

\* preliminary_ranked = sorted(analyzed_articles, by combined_score, reverse)
PreliminaryRank(analyzed_articles) == sort_by_score_desc(analyzed_articles)

rank_articles(analyzed_articles, backend, fails) ==
    IF analyzed_articles = <<>> THEN <<>>
    ELSE LET preliminary_ranked == PreliminaryRank(analyzed_articles)
             top_candidates == Take(preliminary_ranked, RANK_CANDIDATES)
         IN  RankTruncate(glm_rank_articles(top_candidates, backend, fails))

-----------------------------------------------------------------------------
(* ThaiNewsTranslator *)

\* a str the translator returns, where None is the alternative
Str(text) == [text |-> text]

IsSpace(c) == c \in {" ", "NL"}

\* str.strip() of a text: leading and trailing whitespace removed
txt_strip(s) ==
    LET inked == {i \in 1..Len(s) : ~IsSpace(s[i])}
    IN  IF inked = {} THEN <<>>
        ELSE LET lo == CHOOSE i \in inked : \A j \in inked : i <= j
                 hi == CHOOSE i \in inked : \A j \in inked : j <= i
             IN  SubSeq(s, lo, hi)

\* str.split(sep): the pieces between separators, empty ones included
RECURSIVE txt_split(_, _)
txt_split(s, sep) ==
    LET at == {i \in 1..Len(s) : s[i] = sep}
    IN  IF at = {} THEN <<s>>
        ELSE LET i == CHOOSE i \in at : \A j \in at : i <= j
             IN  <<SubSeq(s, 1, i - 1)>> \o txt_split(SubSeq(s, i + 1, Len(s)), sep)

\* str.split(): the runs of non-whitespace characters
RECURSIVE txt_words(_)
txt_words(s) ==
    LET inked == {i \in 1..Len(s) : ~IsSpace(s[i])}
    IN  IF inked = {} THEN <<>>
        ELSE LET lo == CHOOSE i \in inked : \A j \in inked : i <= j
                 gaps == {i \in lo..Len(s) : IsSpace(s[i])}
                 hi == IF gaps = {} THEN Len(s)
                       ELSE (CHOOSE i \in gaps : \A j \in gaps : i <= j) - 1
             IN  <<SubSeq(s, lo, hi)>> \o txt_words(SubSeq(s, hi + 1, Len(s)))

\* ' '.join(words)
RECURSIVE txt_join(_)
txt_join(words) ==
    IF words = <<>> THEN <<>>
    ELSE IF Len(words) = 1 THEN words[1]
    ELSE words[1] \o <<" ">> \o txt_join(Tail(words))

\* _contains_thai
contains_thai(text) == \E i \in 1..Len(text) : text[i] = "T"

\* response[start:end+1] for the first two double quotes, '' when there are
\* fewer than two
first_quoted(response) ==
    LET quotes == {i \in 1..Len(response) : response[i] = "Q"}
    IN  IF quotes = {} THEN <<>>
        ELSE LET start == CHOOSE i \in quotes : \A j \in quotes : i <= j
                 later == {i \in quotes : i > start}
             IN  IF later = {} THEN <<>>
                 ELSE SubSeq(response, start,
                             CHOOSE i \in later : \A j \in later : i <= j)

\* ' | Various | News | Price impact | Score/10'
FallbackTail ==
    <<" ", "|", " ", "a", " ", "|", " ", "a", " ", "|", " ", "a", " ", "|", " ", "a">>

\* f'[{rank}.] | {title_match} | {thai_summary}' followed by the fixed tail
fallback_line(rank, title_match, thai_summary) ==
    <<Marker(rank), " ", "|", " ">> \o title_match \o <<" ", "|", " ">>
        \o thai_summary \o FallbackTail

fallback_format_extraction(response, rank) ==
    LET title_match == first_quoted(response)
        thai_parts == SelectSeq(txt_words(response), contains_thai)
    IN  IF title_match # <<>> /\ thai_parts # <<>>
        THEN Str(fallback_line(rank, title_match, txt_join(Take(thai_parts, 10))))
        ELSE None

\* the test _extract_thai_format applies to a stripped line
LineIsValid(line, expected_rank) ==
    /\ line # <<>> /\ line[1] = Marker(expected_rank)
    /\ \E i \in 1..Len(line) : line[i] = "|"
    /\ LET parts == txt_split(line, "|")
       IN  /\ Len(parts) >= 7
           /\ txt_strip(parts[3]) # <<>>
           /\ contains_thai(txt_strip(parts[3]))

extract_thai_format(response, expected_rank) ==
    LET raw_lines == txt_split(txt_strip(response), "NL")
        lines == [i \in 1..Len(raw_lines) |-> txt_strip(raw_lines[i])]
        valid == {i \in 1..Len(lines) : LineIsValid(lines[i], expected_rank)}
    IN  IF valid # {}
        THEN Str(lines[CHOOSE i \in valid : \A j \in valid : i <= j])
        ELSE fallback_format_extraction(response, expected_rank)

translate_single_article(article, rank, backend) ==
    extract_thai_format(call_glm_translation(backend), rank)

RECURSIVE TranslateLoop(_, _, _)
TranslateLoop(articles, backends, i) ==
    IF i > Len(articles) THEN <<>>
    ELSE LET thai_format == translate_single_article(articles[i], i, backends[i])
             rest == TranslateLoop(articles, backends, i + 1)
         IN  IF IsNone(thai_format) \/ thai_format.text = <<>>
             THEN rest ELSE <<thai_format.text>> \o rest

translate_ranked_news(ranked_articles, backends) ==
    TranslateLoop(Take(ranked_articles, TRANSLATE_TOP), backends, 1)

\* a message is the sequence of its parts of text
\* a variant of format_final_message that answers the empty list with the
\* empty string
format_final_message_blank(thai_news_list) ==
    IF thai_news_list = <<>>
    THEN <<>>
    ELSE <<[part |-> "header", count |-> Len(thai_news_list)]>>
         \o [i \in 1..Len(thai_news_list) |->
                [part |-> "line", line |-> thai_news_list[i]]]
         \o <<[part |-> "footer"]>>

format_final_message(thai_news_list) ==
    IF thai_news_list = <<>>
    THEN <<[part |-> "no_news_placeholder"]>>
    ELSE <<[part |-> "header", count |-> Len(thai_news_list)]>>
         \o [i \in 1..Len(thai_news_list) |->
                [part |-> "line", line |-> thai_news_list[i]]]
         \o <<[part |-> "footer"]>>

-----------------------------------------------------------------------------
(* StockNewsPipeline: the result objects *)

NoNewsFound      == "No news articles found"
NoHighImpact     == "No high-impact news found"
PipelineError    == "Pipeline error"

\* a variant of empty_results that drops the reason
empty_results_no_reason(reason) ==
    [success |-> FALSE, error |-> "", processing_time |-> 0,
     raw_collected |-> 0, analyzed_count |-> 0, final_ranked |-> 0,
     thai_translated |-> 0,
     final_message |-> <<[part |-> "failure", reason |-> reason]>>]

empty_results(reason) ==
    [success |-> FALSE, error |-> reason, processing_time |-> 0,
     raw_collected |-> 0, analyzed_count |-> 0, final_ranked |-> 0,
     thai_translated |-> 0,
     final_message |-> <<[part |-> "failure", reason |-> reason]>>]

\* get_analysis_summary reads a['analysis']['impact_score'] of every article
analysis_summary_raises(analyzed_articles) ==
    \E i \in 1..Len(analyzed_articles) :
        "impact_score" \notin DOMAIN analyzed_articles[i].analysis

\* what the ranking stage meets in a run: the backend's answer, whether the try
\* block of _glm_rank_articles raises, whether rank_articles itself raises
RankOutcome(backend, fails, raises) ==
    [backend |-> backend, fails |-> fails, raises |-> raises]

\* what the translating stage meets: the backend's answers, one for each rank,
\* and whether translate_ranked_news itself raises
TransOutcome(backends, raises) == [backends |-> backends, raises |-> raises]

\* StockNewsPipeline._rank_articles: [] when the ranker raises
pipeline_rank_articles(analyzed_articles, rank) ==
    IF rank.raises THEN <<>>
    ELSE rank_articles(analyzed_articles, rank.backend, rank.fails)

\* StockNewsPipeline._translate_articles: [] when the translator raises
pipeline_translate_articles(ranked_articles, trans) ==
    IF trans.raises THEN <<>>
    ELSE translate_ranked_news(ranked_articles, trans.backends)

\* a variant of StatsRaise for a get_ranking_summary without its guard for the
\* empty list: the average over no article divides by zero
StatsRaiseOnEmptyRanking(analyzed_articles, ranked_articles, thai_news) ==
    analysis_summary_raises(analyzed_articles) \/ ranked_articles = <<>>

\* building pipeline_stats raises, which the outer except turns into a failure:
\* get_analysis_summary can, get_ranking_summary and get_translation_summary
\* answer every list
StatsRaise(analyzed_articles, ranked_articles, thai_news) ==
    analysis_summary_raises(analyzed_articles)

\* steps 3 to 5 and the result: what run_complete_pipeline returns once
\* analyzed_articles is not empty; elapsed is time.time() - start_time
finish_run(raw_articles, analyzed_articles, rank, trans, elapsed) ==
    LET ranked_articles == pipeline_rank_articles(analyzed_articles, rank)
        thai_news == pipeline_translate_articles(ranked_articles, trans)
        final_message == format_final_message(thai_news)
    IN  IF StatsRaise(analyzed_articles, ranked_articles, thai_news)
        THEN empty_results(PipelineError)
        ELSE [success |-> TRUE, processing_time |-> elapsed,
              raw_collected |-> Len(raw_articles),
              analyzed_count |-> Len(analyzed_articles),
              final_ranked |-> Len(ranked_articles),
              thai_translated |-> Len(thai_news),
              final_message |-> final_message]

\* a variant of CollectedNothing that never ends the run
CollectedNothingIgnored(raw_articles) == FALSE

\* `if not raw_articles`
CollectedNothing(raw_articles) == raw_articles = <<>>

\* `if not analyzed_articles`
AnalyzedNothing(analyzed_articles) == analyzed_articles = <<>>

\* a variant of run_complete_pipeline without the outer except: an exception of
\* a summary helper leaves the caller without a result
run_complete_pipeline_unguarded(raw_articles, analyzed_articles, rank, trans, elapsed) ==
    IF CollectedNothing(raw_articles) THEN empty_results(NoNewsFound)
    ELSE IF AnalyzedNothing(analyzed_articles) THEN empty_results(NoHighImpact)
    ELSE IF analysis_summary_raises(analyzed_articles) THEN None
    ELSE finish_run(raw_articles, analyzed_articles, rank, trans, elapsed)

\* run_complete_pipeline, given what steps 1 and 2 return
run_complete_pipeline(raw_articles, analyzed_articles, rank, trans, elapsed) ==
    IF CollectedNothing(raw_articles) THEN empty_results(NoNewsFound)
    ELSE IF AnalyzedNothing(analyzed_articles) THEN empty_results(NoHighImpact)
    ELSE finish_run(raw_articles, analyzed_articles, rank, trans, elapsed)

\* get_last_results
get_last_results(p) == last_results[p]

\* get_system_status()['system_health']
system_health(p) ==
    IF ~IsNone(last_results[p]) /\ Get(last_results[p], "success", FALSE)
    THEN "healthy" ELSE "warning"

-----------------------------------------------------------------------------
(* The threads that run the pipeline.  The scheduler's job and run_immediate *)
(* use the process-wide pipeline of get_pipeline(); the API handlers use the *)
(* pipeline api_server creates, each request in a thread of its own.         *)

Threads == {"sched", "main", "req1", "req2"}
Pipelines == {"global", "api"}
PipelineOf(t) == IF t \in {"sched", "main"} THEN "global" ELSE "api"

StageOrder == <<"Collecting", "Analyzing", "Ranking", "Translating", "Formatting">>
Stage(name, count) == [stage |-> name, count |-> count]
NoCalls == [analysis |-> 0, ranking |-> 0, translation |-> 0]

\* what one collector can do in a run
Raises == Outcome(TRUE, <<>>)
Returns(articles) == Outcome(FALSE, articles)

\* what the three collectors (NewsAPI, RSS, Alpha Vantage) can do in a run
CollectorScenarios ==
    { <<Raises, Raises, Raises>>,
      <<Returns(<<>>), Returns(<<>>), Returns(<<>>)>>,
      <<Returns(<<ArtShortPad>>), Raises, Returns(<<ArtShort>>)>>,
      <<Returns(<<ArtApple>>), Raises, Returns(<<>>)>>,
      <<Raises, Returns(<<ArtApple, ArtFed>>), Returns(<<ArtAppleUp>>)>>,
      <<Returns(<<ArtFedUrl1>>), Returns(<<ArtShort, ArtApple>>), Returns(<<ArtFed>>)>> }

Analysis(score, tickers) == JsonObject([impact_score |-> score, tickers |-> tickers])

\* what the backend can do on one analysis call
AnalysisBackends ==
    { Backend(TRUE, NoJson), Backend(FALSE, Malformed),
      Backend(FALSE, Analysis(9, <<"NVDA">>)),
      Backend(FALSE, Analysis(4, <<>>)) }

\* the response holds a JSON object whose impact_score reaches the minimum
ScoredHigh(backend) ==
    LET response == call_glm_analysis(backend)
    IN  /\ response.kind = "object"
        /\ "impact_score" \in DOMAIN response.data
        /\ response.data.impact_score >= MIN_IMPACT_SCORE

RankBackends == { Backend(TRUE, <<>>), Backend(FALSE, <<>>),
                  Backend(FALSE, <<RankLine(1, 2), RankLine(2, 1)>>) }

\* translation responses for the article at a rank, by kind
GoodLine(rank) ==
    <<Marker(rank), " ", "|", " ", "Q", "a", "Q", " ", "|", " ", "T", "T", " ",
      "|", " ", "a", " ", "|", " ", "a", " ", "|", " ", "a", " ", "|", " ", "a">>

TranslationText(kind, rank) ==
    CASE kind = "good" -> GoodLine(rank)
      [] kind = "preamble" -> <<"a", " ", "a", "NL", " ">> \o GoodLine(rank) \o <<"NL">>
      [] kind = "empty" -> <<>>
      \* the line of another rank
      [] kind = "other_rank" -> GoodLine(rank + 1)
      \* a complete line whose summary is not Thai
      [] kind = "latin_summary" ->
            <<Marker(rank), "|", "Q", "a", "Q", "|", "a", "|", "a", "|", "a", "|",
              "a", "|", "a">>
      \* a line of six fields written without blanks
      [] kind = "six_fields" ->
            <<Marker(rank), "|", "Q", "a", "Q", "|", "T", "T", "|", "a", "|", "a",
              "|", "a">>
      \* a quoted headline that holds a '|', then Thai text
      [] kind = "quoted_pipe" -> <<"Q", "a", " ", "|", " ", "a", "Q", " ", "T", "T">>
      \* Thai text and no quote
      [] kind = "thai_only" -> <<"T", "T", " ", "a", " ", "T">>

TranslationKinds ==
    {"good", "preamble", "empty", "other_rank", "latin_summary", "six_fields",
     "quoted_pipe", "thai_only"}

\* what the backend does on the translation call for the article at a rank
TranslationBackend(kind, rank) ==
    IF kind = "raises" THEN Backend(TRUE, <<>>)
    ELSE Backend(FALSE, TranslationText(kind, rank))

\* what the ranking and the translating stage can meet in a run
RankOutcomes ==
    {RankOutcome(backend, FALSE, FALSE) : backend \in RankBackends}
    \cup {RankOutcome(Backend(FALSE, <<>>), TRUE, FALSE),
          RankOutcome(Backend(FALSE, <<>>), FALSE, TRUE)}

TransOutcomes ==
    {TransOutcome([i \in 1..TRANSLATE_TOP |-> TranslationBackend(kind, i)], FALSE) :
        kind \in {"raises", "empty", "good", "latin_summary"}}
    \cup {TransOutcome(<<>>, TRUE)}

\* time.time() - start_time of a run, in seconds
Elapsed == 5

plInit ==
    /\ pc = [t \in Threads |-> "idle"]
    /\ raw = [t \in Threads |-> <<>>]
    /\ stages = [t \in Threads |-> <<>>]
    /\ model_calls = [t \in Threads |-> NoCalls]
    /\ fetched = [t \in Threads |-> FALSE]
    /\ high_seen = [t \in Threads |-> FALSE]
    /\ ret = [t \in Threads |-> None]
    /\ last_results = [p \in Pipelines |-> None]
    /\ last_run = [p \in Pipelines |-> 0]
    /\ completed = [p \in Pipelines |-> None]
    /\ runs = 0
    /\ is_running = FALSE

\* NewsScheduler.start_scheduler / stop_scheduler
start_scheduler ==
    /\ ~is_running
    /\ is_running' = TRUE
    /\ UNCHANGED <<pc, raw, stages, model_calls, fetched, high_seen, ret,
                   last_results, last_run, completed, runs>>

stop_scheduler ==
    /\ is_running
    /\ is_running' = FALSE
    /\ UNCHANGED <<pc, raw, stages, model_calls, fetched, high_seen, ret,
                   last_results, last_run, completed, runs>>

\* thread t enters run_complete_pipeline
BeginRun(t) ==
    /\ pc[t] = "idle"
    /\ runs < MaxRuns
    /\ runs' = runs + 1
    /\ pc' = [pc EXCEPT ![t] = "collecting"]
    /\ raw' = [raw EXCEPT ![t] = <<>>]
    /\ stages' = [stages EXCEPT ![t] = <<>>]
    /\ model_calls' = [model_calls EXCEPT ![t] = NoCalls]
    /\ fetched' = [fetched EXCEPT ![t] = FALSE]
    /\ high_seen' = [high_seen EXCEPT ![t] = FALSE]
    /\ ret' = [ret EXCEPT ![t] = None]
    /\ UNCHANGED <<last_results, last_run, completed, is_running>>

\* the scheduler thread's run_pending() runs a due job: _process_and_broadcast
process_and_broadcast ==
    /\ is_running
    /\ BeginRun("sched")

\* NewsScheduler.run_immediate, called in the caller's thread
run_immediate == BeginRun("main")

\* GET /api/refresh (refresh_news) or a cache miss of GET /api/news/latest
api_refresh(t) ==
    /\ t \in {"req1", "req2"}
    /\ BeginRun(t)

\* run_complete_pipeline returns result to thread t
Return(t, result) ==
    /\ pc' = [pc EXCEPT ![t] = "idle"]
    /\ raw' = [raw EXCEPT ![t] = <<>>]
    /\ ret' = [ret EXCEPT ![t] = result]
    /\ completed' = [completed EXCEPT ![PipelineOf(t)] = result]

\* step 1 of run_complete_pipeline
CollectStage(t) ==
    /\ pc[t] = "collecting"
    /\ \E outcomes \in CollectorScenarios :
         LET raw_articles == collect_news(outcomes)
         IN  /\ fetched' = [fetched EXCEPT ![t] = collect_all_news(outcomes) # <<>>]
             /\ stages' = [stages EXCEPT
                            ![t] = Append(@, Stage("Collecting", Len(raw_articles)))]
             /\ IF CollectedNothing(raw_articles)
                THEN Return(t, empty_results(NoNewsFound))
                ELSE /\ pc' = [pc EXCEPT ![t] = "analyzing"]
                     /\ raw' = [raw EXCEPT ![t] = raw_articles]
                     /\ UNCHANGED <<ret, completed>>
    /\ UNCHANGED <<model_calls, high_seen, last_results, last_run, runs, is_running>>

\* steps 2 to 5 of run_complete_pipeline.  Steps 3 to 5 are taken with step 2:
\* no behaviour of the program reaches them (NoRunSucceeds below), so no
\* interleaving with them is lost
AnalyzeStage(t) ==
    /\ pc[t] = "analyzing"
    /\ \E backends \in [1..Len(raw[t]) -> AnalysisBackends] :
         LET analyzed_articles == analyze_articles(raw[t], backends)
             sent == Len(Take(raw[t], ANALYZE_LIMIT))
             analyzing == Stage("Analyzing", Len(analyzed_articles))
         IN  /\ high_seen' = [high_seen EXCEPT
                                ![t] = \E i \in 1..sent : ScoredHigh(backends[i])]
             /\ IF AnalyzedNothing(analyzed_articles)
                THEN /\ stages' = [stages EXCEPT ![t] = Append(@, analyzing)]
                     /\ model_calls' = [model_calls EXCEPT ![t].analysis = sent]
                     /\ Return(t, empty_results(NoHighImpact))
                     /\ UNCHANGED <<last_results, last_run>>
                ELSE \E rank \in RankOutcomes, trans \in TransOutcomes :
                       LET ranked == pipeline_rank_articles(analyzed_articles, rank)
                           results == finish_run(raw[t], analyzed_articles, rank,
                                                 trans, Elapsed)
                       IN  /\ stages' = [stages EXCEPT ![t] =
                                 @ \o <<analyzing,
                                        Stage("Ranking", Len(ranked)),
                                        Stage("Translating", results.thai_translated),
                                        Stage("Formatting", 1)>>]
                           /\ model_calls' = [model_calls EXCEPT ![t] =
                                 [analysis |-> sent,
                                  ranking |-> IF rank.fails \/ rank.raises THEN 0 ELSE 1,
                                  translation |->
                                      IF trans.raises THEN 0
                                      ELSE Len(Take(ranked, TRANSLATE_TOP))]]
                           /\ Return(t, results)
                           /\ IF results.success
                              THEN /\ last_run' = [last_run EXCEPT
                                                     ![PipelineOf(t)] = runs]
                                   /\ last_results' = [last_results EXCEPT
                                                     ![PipelineOf(t)] = results]
                              ELSE UNCHANGED <<last_results, last_run>>
    /\ UNCHANGED <<fetched, runs, is_running>>

plOnly == UNCHANGED <<anVars, rkVars, ddVars, clVars, trVars, stVars, scVars, llVars, apVars>>

\* the variables of the other specifications stay as they start
plIdle == plInit
anIdle ==
    /\ an_articles = <<>> /\ an_backends = <<>> /\ an_parsed = <<>>
    /\ an_out = <<>> /\ an_done = FALSE
rkIdle ==
    /\ rk_in = <<>> /\ rk_backend = Backend(FALSE, <<>>) /\ rk_fails = FALSE
    /\ rk_out = <<>> /\ rk_done = FALSE
ddIdle ==
    /\ dd_in = <<>> /\ dd_out = <<>> /\ dd_again = <<>> /\ dd_done = 0
\* a loop thread: where it is, the jobs run_pending still has to run, and the
\* job it is running
NoThread == [pc |-> "unborn", todo |-> <<>>, job |-> None]

scInit ==
    /\ sc_is_running = FALSE
    /\ sc_jobs = <<>>
    /\ sc_due = {}
    /\ sc_thread = [i \in 1..MaxCalls |-> NoThread]
    /\ sc_calls = [start |-> 0, stop |-> 0]
    /\ sc_triggers = 0
    /\ sc_log = <<>>
scIdle == scInit
llIdle ==
    /\ ll_primary = "absent" /\ ll_langchain = FALSE /\ ll_search = FALSE
    /\ ll_cache = {} /\ ll_now = 0
    /\ ll_in = <<>> /\ ll_out = <<>> /\ ll_log = <<>>
\* news_cache = {'last_update': None, 'news': []}
apInit ==
    /\ ap_now = 0
    /\ ap_cache = [last_update |-> None, news |-> <<>>]
    /\ ap_runs = 0 /\ ap_requests = 0
    /\ ap_fresh = None /\ ap_resp = None
apIdle == apInit
stIdle ==
    /\ st_outcomes = <<>> /\ st_raw = <<>> /\ st_analyzed = <<>>
    /\ st_rank = RankOutcome(Backend(FALSE, <<>>), FALSE, FALSE)
    /\ st_trans = TransOutcome(<<>>, FALSE)
    /\ st_result = None /\ st_done = FALSE
trIdle ==
    /\ tr_in = <<>> /\ tr_backends = <<>> /\ tr_out = <<>> /\ tr_done = FALSE
    /\ tr_message = None
clIdle ==
    /\ cl_names = <<>> /\ cl_outcomes = <<>> /\ cl_own = <<>> /\ cl_all = <<>>
    /\ cl_stats = <<>> /\ cl_unique = <<>> /\ cl_status = None /\ cl_done = FALSE

Init == plInit /\ anIdle /\ rkIdle /\ ddIdle /\ clIdle /\ trIdle /\ stIdle /\ scIdle /\ llIdle /\ apIdle
Next ==
    \/ start_scheduler /\ plOnly
    \/ stop_scheduler /\ plOnly
    \/ process_and_broadcast /\ plOnly
    \/ run_immediate /\ plOnly
    \/ \E t \in Threads : api_refresh(t) /\ plOnly
    \/ \E t \in Threads : CollectStage(t) /\ plOnly
    \/ \E t \in Threads : AnalyzeStage(t) /\ plOnly
Spec == Init /\ [][Next]_vars

-----------------------------------------------------------------------------
(* _remove_global_duplicates applied to drawn lists, then to its own output *)

SeqsUpTo(S, n) == UNION {[1..k -> S] : k \in 0..n}

ddInit ==
    /\ dd_in \in SeqsUpTo(ArticlePool, MaxDedupLen)
    /\ dd_out = <<>> /\ dd_again = <<>> /\ dd_done = 0

Deduplicate ==
    /\ dd_done = 0
    /\ dd_out' = remove_global_duplicates(dd_in)
    /\ dd_done' = 1
    /\ UNCHANGED <<dd_in, dd_again>>

DeduplicateAgain ==
    /\ dd_done = 1
    /\ dd_again' = remove_global_duplicates(dd_out)
    /\ dd_done' = 2
    /\ UNCHANGED <<dd_in, dd_out>>

InitDedup == ddInit /\ plIdle /\ anIdle /\ rkIdle /\ clIdle /\ trIdle /\ stIdle /\ scIdle /\ llIdle /\ apIdle
NextDedup ==
    \/ Deduplicate /\ UNCHANGED <<plVars, anVars, rkVars, clVars, trVars, stVars, scVars, llVars, apVars>>
    \/ DeduplicateAgain /\ UNCHANGED <<plVars, anVars, rkVars, clVars, trVars, stVars, scVars, llVars, apVars>>
SpecDedup == InitDedup /\ [][NextDedup]_vars

-----------------------------------------------------------------------------
(* analyze_multiple_articles applied to drawn batches *)

\* the scores of the six-article scenario
ScenarioScores == <<9, 4, 7, 5, 8, 3>>

BackendPatterns ==
    { [i \in 1..6 |-> Backend(FALSE, Analysis(ScenarioScores[i], <<>>))],
      <<Backend(FALSE, NoJson),
        Backend(FALSE, Analysis(12, <<"AAPL", "MSFT", "NVDA">>)),
        Backend(FALSE, Malformed),
        Backend(FALSE, Analysis(0, <<>>)),
        Backend(TRUE, NoJson),
        Backend(FALSE, JsonObject([tickers |-> <<"TSLA">>])),
        Backend(FALSE, Analysis(10, <<"XYZ">>)),
        Backend(FALSE, Analysis(5, <<"XYZ", "AMD">>)),
        Backend(FALSE, Analysis(6, <<"AAPL", "XYZ", "NVDA", "AAPL">>))>> }

BatchArticles == <<ArtFed, ArtAppleUp, ArtApple>>

anInit ==
    /\ \E n \in 0..MaxBatch, pattern \in BackendPatterns, k \in 0..8, a \in 0..2 :
         /\ k < Len(pattern)
         /\ an_backends = [i \in 1..n |-> pattern[((i - 1 + k) % Len(pattern)) + 1]]
         /\ an_articles = [i \in 1..n |-> BatchArticles[((i - 1 + a) % 3) + 1]]
    /\ an_parsed = <<>> /\ an_out = <<>> /\ an_done = FALSE

Analyze ==
    /\ ~an_done
    /\ an_parsed' = [i \in 1..Len(an_articles) |->
                        parse_analysis_response(call_glm_analysis(an_backends[i]),
                                                an_articles[i])]
    /\ an_out' = analyze_multiple_articles(an_articles, an_backends)
    /\ an_done' = TRUE
    /\ UNCHANGED <<an_articles, an_backends>>

InitAnalyzer == anInit /\ plIdle /\ rkIdle /\ ddIdle /\ clIdle /\ trIdle /\ stIdle /\ scIdle /\ llIdle /\ apIdle
NextAnalyzer == Analyze /\ UNCHANGED <<plVars, rkVars, ddVars, clVars, trVars, stVars, scVars, llVars, apVars>>
SpecAnalyzer == InitAnalyzer /\ [][NextAnalyzer]_vars

-----------------------------------------------------------------------------
(* rank_articles applied to drawn lists and ranking responses *)

\* the i-th analyzed article of a drawn list
Analyzed(i, score) ==
    [original_article |-> [title |-> <<i>>],
     analysis |-> [impact_score |-> score],
     combined_score |-> score]

\* scores with ties, out of order / rising along the list
ScorePatterns ==
    { [i \in 1..(MaxRankIn + 1) |-> 5 + ((2 * i) % 5)],
      [i \in 1..(MaxRankIn + 1) |-> 5 + (i \div 4)] }

RankLinePool ==
    { RankLine(1, 2), RankLine(2, 12), RankLine(2, 0), NanLine }

RankDraws ==
    {<<Backend(FALSE, lines), FALSE>> : lines \in SeqsUpTo(RankLinePool, MaxLines)}
    \cup {<<Backend(TRUE, <<>>), FALSE>>, <<Backend(FALSE, <<>>), TRUE>>}

rkInit ==
    /\ \E n \in 0..MaxRankIn, pattern \in ScorePatterns :
         rk_in = [i \in 1..n |-> Analyzed(i, pattern[i])]
    /\ \E draw \in RankDraws : rk_backend = draw[1] /\ rk_fails = draw[2]
    /\ rk_out = <<>> /\ rk_done = FALSE

Rank ==
    /\ ~rk_done
    /\ rk_out' = rank_articles(rk_in, rk_backend, rk_fails)
    /\ rk_done' = TRUE
    /\ UNCHANGED <<rk_in, rk_backend, rk_fails>>

InitRanker == rkInit /\ plIdle /\ anIdle /\ ddIdle /\ clIdle /\ trIdle /\ stIdle /\ scIdle /\ llIdle /\ apIdle
NextRanker == Rank /\ UNCHANGED <<plVars, anVars, ddVars, clVars, trVars, stVars, scVars, llVars, apVars>>
SpecRanker == InitRanker /\ [][NextRanker]_vars

-----------------------------------------------------------------------------
(* Properties of the orchestrator (specification Spec) *)

Finished(t) == pc[t] = "idle" /\ ~IsNone(ret[t])

\* no run of the program succeeds: analyze_single_article lets no article
\* through, so every run ends at step 1 or step 2
NoRunSucceeds ==
    \A t \in Threads : Finished(t) => ~ret[t].success

\* C1: when the collectors together yield no article (all return empty, all
\* raise, or deduplication removes every article), the run returns
\* success = false, every stage count 0 and a non-empty error
C1_ZeroCollectedFails ==
    \A t \in Threads :
        (Finished(t) /\ stages[t][1].count = 0) =>
            /\ ret[t].success = FALSE
            /\ ret[t].raw_collected = 0
            /\ ret[t].analyzed_count = 0
            /\ ret[t].final_ranked = 0
            /\ ret[t].thai_translated = 0
            /\ "error" \in DOMAIN ret[t]
            /\ ret[t].error # ""

\* a run has returned whose collectors delivered articles that deduplication
\* removed, all of them
C1_Witness ==
    \E t \in Threads :
        Finished(t) /\ fetched[t] /\ stages[t][1].count = 0

\* C3: a run whose deduplicated collection is not empty and in which the model
\* scores one of the first 50 articles at or above the minimum ends in Done:
\* success = true, analyzed_count >= 1 and a non-empty final_message
C3_HighScoreRunSucceeds ==
    \A t \in Threads :
        (Finished(t) /\ stages[t][1].count > 0 /\ high_seen[t]) =>
            /\ ret[t].success
            /\ ret[t].analyzed_count >= 1
            /\ ret[t].final_message # <<>>

\* C4: the stages of a run are invoked in the order Collecting, Analyzing,
\* Ranking, Translating, Formatting; when Collecting or Analyzing returns
\* nothing the run has failed and no later stage and no ranking or translation
\* model call is made in it
C4_StageOrder ==
    \A t \in Threads :
        /\ Len(stages[t]) <= Len(StageOrder)
        /\ \A i \in 1..Len(stages[t]) : stages[t][i].stage = StageOrder[i]
        /\ pc[t] = "collecting" => stages[t] = <<>>
        /\ pc[t] = "analyzing" => Len(stages[t]) = 1
        /\ (Len(stages[t]) >= 1 /\ stages[t][1].count = 0) =>
              /\ Len(stages[t]) = 1
              /\ Finished(t) /\ ~ret[t].success
              /\ model_calls[t] = NoCalls
        /\ (Len(stages[t]) >= 2 /\ stages[t][2].count = 0) =>
              /\ Len(stages[t]) = 2
              /\ Finished(t) /\ ~ret[t].success
              /\ model_calls[t].ranking = 0
              /\ model_calls[t].translation = 0

\* a run has failed at Analyzing: it collected articles, analysed them, kept none
C4_Witness ==
    \E t \in Threads :
        /\ Finished(t)
        /\ Len(stages[t]) = 2
        /\ stages[t][1].count > 0
        /\ stages[t][2].count = 0
        /\ model_calls[t].analysis > 0

\* C5: at most one execution of run_complete_pipeline is in progress at any
\* time: the scheduler's job, run_immediate and the API's refresh never overlap
C5_NoOverlap ==
    Cardinality({t \in Threads : pc[t] # "idle"}) <= 1

\* C6: after a completed run, successful or failed, get_last_results() is that
\* run's result and system_health is 'healthy' exactly when that run succeeded
C6_StatusReflectsLastRun ==
    \A p \in Pipelines :
        ~IsNone(completed[p]) =>
            /\ get_last_results(p) = completed[p]
            /\ (system_health(p) = "healthy") <=> completed[p].success

-----------------------------------------------------------------------------
(* Properties of the analyzer (specification SpecAnalyzer) *)

\* the articles whose response holds a JSON object with impact_score at or
\* above the minimum, in input order
RECURSIVE ScoredHighArticles(_, _)
ScoredHighArticles(articles, backends) ==
    IF articles = <<>> THEN <<>>
    ELSE (IF ScoredHigh(Head(backends)) THEN <<Head(articles)>> ELSE <<>>)
         \o ScoredHighArticles(Tail(articles), Tail(backends))

\* C2: analyze_multiple_articles returns, in input order, exactly the articles
\* whose response holds a parsable JSON object with impact_score >= 5
C2_ThresholdFilter ==
    an_done =>
        [i \in 1..Len(an_out) |-> an_out[i].original_article]
            = ScoredHighArticles(an_articles, an_backends)

\* C7: every analyzed article has 1 <= composite score <= 10 and a composite
\* score at least the impact_score the model returned
C7_CompositeScoreBounds ==
    an_done =>
        \A i \in 1..Len(an_parsed) :
            ~IsNone(an_parsed[i]) =>
                /\ 1 <= an_parsed[i].combined_score
                /\ an_parsed[i].combined_score <= 10
                /\ "impact_score" \in DOMAIN an_parsed[i].analysis =>
                      an_parsed[i].combined_score >= an_parsed[i].analysis.impact_score

\* the tickers of an analysis that are on the large-cap list
RECURSIVE LargeCapTickers(_)
LargeCapTickers(tickers) ==
    IF tickers = <<>> THEN 0
    ELSE (IF Head(tickers) \in LARGE_CAP_STOCKS THEN 1 ELSE 0) + LargeCapTickers(Tail(tickers))

\* the source names of the batch that hold a reputable-source keyword
ReputableSources == {SrcReuters, SrcCnbcWsj}

\* C23: composite = min(10, impact_score + min(large-cap tickers, 2) + (1 if
\* the source name holds a reputable-source keyword, else 0)); the large-cap
\* bonus is at most 2 and the source bonus is applied once, also when several
\* keywords match.
C23_CompositeFormula ==
    an_done =>
        \A i \in 1..Len(an_parsed) :
            (~IsNone(an_parsed[i]) /\ "impact_score" \in DOMAIN an_parsed[i].analysis) =>
                LET a == an_parsed[i].analysis
                    caps == LargeCapTickers(Get(a, "tickers", <<>>))
                    cap_bonus == IF caps >= 2 THEN 2 ELSE caps
                    source_bonus == IF an_articles[i].source \in ReputableSources THEN 1 ELSE 0
                    sum == a.impact_score + cap_bonus + source_bonus
                IN  an_parsed[i].combined_score = IF sum >= 10 THEN 10 ELSE sum

\* an article whose source name holds two keywords was scored 6 with three
\* large-cap tickers: composite 9
C23_Witness ==
    /\ an_done
    /\ \E i \in 1..Len(an_parsed) :
          /\ ~IsNone(an_parsed[i])
          /\ an_articles[i].source = SrcCnbcWsj
          /\ "impact_score" \in DOMAIN an_parsed[i].analysis
          /\ an_parsed[i].analysis.impact_score = 6
          /\ LargeCapTickers(an_parsed[i].analysis.tickers) = 3
          /\ an_parsed[i].combined_score = 9

\* the analysis of article i failed: the response was no JSON object, or the
\* object holds no impact_score
AnalysisFailed(i) ==
    \/ IsNone(an_parsed[i])
    \/ "impact_score" \notin DOMAIN an_parsed[i].analysis

-----------------------------------------------------------------------------
(* Properties of the ranker (specification SpecRanker) *)

\* the position of an article in the list rank_articles was given
InputPos(x) == CHOOSE i \in 1..Len(rk_in) : rk_in[i].original_article = x.original_article

\* x comes before y in the score ordering: higher composite score, or the same
\* score and earlier in the input
ScoreBefore(x, y) ==
    \/ x.combined_score > y.combined_score
    \/ x.combined_score = y.combined_score /\ InputPos(x) < InputPos(y)

\* the ranking candidates: the (up to) 15 articles first in the score ordering
IsCandidate(x) ==
    Cardinality({i \in 1..Len(rk_in) : ScoreBefore(rk_in[i], x)}) < RANK_CANDIDATES

\* the position of a candidate in the list shown to the model
CandidatePos(x) == Cardinality({i \in 1..Len(rk_in) : ScoreBefore(rk_in[i], x)}) + 1

NumCandidates == Min(Len(rk_in), RANK_CANDIDATES)

\* the candidate positions named by well-formed 'Rank n: Article [i]' lines of
\* the response the ranker read
NamedByModel ==
    IF rk_fails THEN {}
    ELSE LET lines == call_glm_ranking(rk_backend)
         IN  {lines[k].idx : k \in {k \in 1..Len(lines) :
                                      /\ lines[k].shape = "rank"
                                      /\ 1 <= lines[k].idx
                                      /\ lines[k].idx <= NumCandidates}}

ModelRanked(x) == IsCandidate(x) /\ CandidatePos(x) \in NamedByModel

\* C8: rank_articles returns at most 10 articles and at most as many as it was
\* given, and every article the model ranked comes before every article that
\* fell back to the score ordering
C8_RankerOutput ==
    rk_done =>
        /\ Len(rk_out) <= 10
        /\ Len(rk_out) <= Len(rk_in)
        /\ \A i \in 1..Len(rk_out) : \A j \in 1..Len(rk_out) :
              (ModelRanked(rk_out[j]) /\ ~ModelRanked(rk_out[i])) => j < i

\* more than 10 articles were given, 10 are returned, some ranked by the model
\* and some not
C8_Witness ==
    /\ rk_done
    /\ Len(rk_in) > 10
    /\ Len(rk_out) = 10
    /\ \E i \in 1..Len(rk_out) : ModelRanked(rk_out[i])
    /\ \E i \in 1..Len(rk_out) : ~ModelRanked(rk_out[i])

\* C9: when the ranking response is empty or no line of it parses, or the call
\* fails, rank_articles returns the input sorted by composite score
\* descending, ties in input order, cut to 10
C9_FallbackOrder ==
    (rk_done /\ NamedByModel = {}) =>
        /\ Len(rk_out) = Min(Len(rk_in), 10)
        /\ \A i \in 1..Len(rk_out) :
              \E k \in 1..Len(rk_in) :
                  rk_in[k].original_article = rk_out[i].original_article
        /\ \A i \in 1..Len(rk_out) : \A j \in 1..Len(rk_out) :
              i < j => ScoreBefore(rk_out[i], rk_out[j])
        /\ \A k \in 1..Len(rk_in) :
              (\A i \in 1..Len(rk_out) :
                  rk_out[i].original_article # rk_in[k].original_article)
              => \A i \in 1..Len(rk_out) : ScoreBefore(rk_out[i], rk_in[k])

\* the model answered with lines none of which parses, for more than 10
\* articles with equal scores among them
C9_Witness ==
    /\ rk_done /\ ~rk_fails /\ ~rk_backend.raised
    /\ rk_backend.text # <<>>
    /\ NamedByModel = {}
    /\ Len(rk_in) > 10
    /\ \E i \in 1..Len(rk_out) : \E j \in 1..Len(rk_out) :
          i # j /\ rk_out[i].combined_score = rk_out[j].combined_score

\* the lines of the response the ranker read
ResponseLines == IF rk_fails THEN <<>> ELSE call_glm_ranking(rk_backend)

\* the well-formed lines of the response that name the candidate x
LinesNaming(x) ==
    {k \in 1..Len(ResponseLines) :
        /\ ResponseLines[k].shape = "rank"
        /\ ResponseLines[k].idx = CandidatePos(x)}

\* C21: each line 'Rank N: Article [i] ...' with a valid index i assigns the
\* rank N written in the line, and the line's reasoning, to candidate i; the
\* lines that do not parse or name no candidate change nothing; the
\* model-ranked articles are output in ascending N.
C21_LineAssignsWrittenRank ==
    rk_done =>
        /\ \A i \in 1..Len(rk_out) : ModelRanked(rk_out[i]) <=> HasGlmRank(rk_out[i])
        /\ \A i \in 1..Len(rk_out) :
              HasGlmRank(rk_out[i]) =>
                  \E k \in LinesNaming(rk_out[i]) :
                      /\ rk_out[i].glm_rank = ResponseLines[k].n
                      /\ rk_out[i].glm_reasoning = ResponseLines[k].reason
        /\ \A i, j \in 1..Len(rk_out) :
              (i < j /\ HasGlmRank(rk_out[i]) /\ HasGlmRank(rk_out[j])) =>
                  \E k \in LinesNaming(rk_out[i]), l \in LinesNaming(rk_out[j]) :
                      ResponseLines[k].n <= ResponseLines[l].n

\* the position of every model-ranked article of the output, keyed by rank
AssignedRanks == {rk_out[i].glm_rank : i \in {i \in 1..Len(rk_out) : HasGlmRank(rk_out[i])}}
NumModelRanked == Cardinality({i \in 1..Len(rk_out) : HasGlmRank(rk_out[i])})

\* C22: for every response, also one that names a candidate on several lines,
\* the ranks of the model-ranked articles are pairwise distinct and are
\* exactly 1..K, K the number of model-ranked articles.
C22_RanksDense ==
    rk_done => AssignedRanks = 1..NumModelRanked

-----------------------------------------------------------------------------
(* Properties of global deduplication (specification SpecDedup) *)

\* C10: _remove_global_duplicates applied to its own output returns that
\* output: nothing more is removed and the order is kept
C10_DedupIdempotent ==
    dd_done = 2 => dd_again = dd_out

\* deduplication removed articles and kept two or more, and has been applied
\* to its output
C10_Witness ==
    /\ dd_done = 2
    /\ Len(dd_out) >= 2
    /\ Len(dd_out) < Len(dd_in)

-----------------------------------------------------------------------------
(* collect_all_news and _collect_news applied to drawn collectors *)

\* the collectors _setup_collectors registers, in order; one whose constructor
\* raises is left out
CollectorClasses == <<"NewsAPICollector", "RSSCollector", "AlphaVantageCollector">>

Registrations ==
    { <<>>, <<1>>, <<2>>, <<3>>, <<1, 2>>, <<1, 3>>, <<2, 3>>, <<1, 2, 3>> }

Digit == <<"1", "2", "3", "4", "5", "6">>
NewsTitle(d)   == <<"S","t","o","c","k"," ","n","e","w","s"," ", Digit[d]>>
NewsTitleUp(d) == <<" ","S","T","O","C","K"," ","N","E","W","S"," ", Digit[d]>>
News(d)   == Article(NewsTitle(d), <<"u", "/", Digit[d]>>, SrcReuters)
\* the same story from another source: same title up to case and blanks
NewsUp(d) == Article(NewsTitleUp(d), <<"v", "/", Digit[d]>>, SrcCnbcWsj)

FiveArticles  == Returns(<<News(1), News(2), News(3), News(4), News(5)>>)
ThreeArticles == Returns(<<NewsUp(1), News(6), NewsUp(2)>>)

CollectorOutcomes ==
    { Raises, Returns(<<>>), FiveArticles, ThreeArticles,
      Returns(<<ArtApple, ArtShort>>) }

\* the methods a collector class defines besides __init__ and its helpers
CollectorMethods(class) ==
    IF class = "RSSCollector" THEN {"collect_news", "collect_all_feeds", "get_feed_status"}
    ELSE IF class = "NewsAPICollector" THEN {"collect_news", "collect_stock_news", "get_api_status"}
    ELSE {"collect_news", "collect_market_news", "collect_ticker_news", "get_api_status"}

\* the states a collector's own status method tells apart
OwnStates(class) ==
    IF class = "AlphaVantageCollector" THEN {"active", "demo_mode", "rate_limited", "error"}
    ELSE {"active", "error"}

\* collector.get_status(): the attribute lookup fails on a class without it
get_status(class, own) ==
    IF "get_status" \in CollectorMethods(class) THEN [raised |-> FALSE, value |-> [status |-> own]]
    ELSE [raised |-> TRUE, value |-> None]

\* NewsCollectorManager.get_all_status: class name and status, per collector
get_all_status(names, own) ==
    [i \in 1..Len(names) |->
        LET answer == get_status(names[i], own[i])
        IN  <<names[i], IF answer.raised THEN [status |-> "error", message |-> "AttributeError"]
                        ELSE answer.value>>]

clInit ==
    /\ \E reg \in Registrations :
         /\ cl_names = [i \in 1..Len(reg) |-> CollectorClasses[reg[i]]]
         /\ cl_outcomes \in [1..Len(reg) -> CollectorOutcomes]
         /\ cl_own \in [1..Len(reg) -> OwnStates("AlphaVantageCollector")]
         /\ \A i \in 1..Len(reg) : cl_own[i] \in OwnStates(CollectorClasses[reg[i]])
    /\ cl_all = <<>> /\ cl_stats = <<>> /\ cl_unique = <<>>
    /\ cl_status = None /\ cl_done = FALSE

\* get_all_status is asked once
GetAllStatus ==
    /\ IsNone(cl_status)
    /\ cl_status' = [entries |-> get_all_status(cl_names, cl_own)]
    /\ UNCHANGED <<cl_names, cl_outcomes, cl_own, cl_all, cl_stats, cl_unique, cl_done>>

\* _collect_news: collect_all_news, then _remove_global_duplicates
Collect ==
    /\ ~cl_done
    /\ cl_all' = collect_all_news(cl_outcomes)
    /\ cl_stats' = collection_stats(cl_names, cl_outcomes)
    /\ cl_unique' = collect_news(cl_outcomes)
    /\ cl_done' = TRUE
    /\ UNCHANGED <<cl_names, cl_outcomes, cl_own, cl_status>>

InitCollect == clInit /\ plIdle /\ anIdle /\ rkIdle /\ ddIdle /\ trIdle /\ stIdle /\ scIdle /\ llIdle /\ apIdle
NextCollect ==
    \/ Collect /\ UNCHANGED <<plVars, anVars, rkVars, ddVars, trVars, stVars, scVars, llVars, apVars>>
    \/ GetAllStatus /\ UNCHANGED <<plVars, anVars, rkVars, ddVars, trVars, stVars, scVars, llVars, apVars>>
SpecCollect == InitCollect /\ [][NextCollect]_vars

\* the number of articles the collectors before i delivered
RECURSIVE DeliveredBefore(_)
DeliveredBefore(i) ==
    IF i <= 1 THEN 0
    ELSE DeliveredBefore(i - 1)
         + (IF cl_outcomes[i - 1].raised THEN 0 ELSE Len(cl_outcomes[i - 1].articles))

\* C11: a collector that raises contributes no article and is recorded with
\* status 'error' and count 0; every other collector is still invoked and its
\* articles are merged; collectors returning [5, raises, 3] articles with 2
\* duplicate titles across sources give 6 unique articles
C11_CollectorIsolation ==
    cl_done =>
        /\ Len(cl_stats) = Len(cl_names)
        /\ Len(cl_all) = DeliveredBefore(Len(cl_names) + 1)
        /\ \A i \in 1..Len(cl_names) :
              /\ cl_stats[i][1] = cl_names[i]
              /\ cl_outcomes[i].raised =>
                    /\ cl_stats[i][2].status = "error"
                    /\ cl_stats[i][2].count = 0
              /\ ~cl_outcomes[i].raised =>
                    /\ cl_stats[i][2].status = "success"
                    /\ cl_stats[i][2].count = Len(cl_outcomes[i].articles)
                    /\ \A k \in 1..Len(cl_outcomes[i].articles) :
                          cl_all[DeliveredBefore(i) + k] = cl_outcomes[i].articles[k]
        /\ cl_outcomes = <<FiveArticles, Raises, ThreeArticles>> => Len(cl_unique) = 6

\* the collectors have returned 5 articles, raised, and returned 3 articles
C11_Witness ==
    /\ cl_done
    /\ cl_outcomes = <<FiveArticles, Raises, ThreeArticles>>
    /\ cl_stats[2][2].status = "error"
    /\ Len(cl_all) = 8

-----------------------------------------------------------------------------
(* translate_ranked_news applied to drawn lists and translation responses *)

trInit ==
    /\ \E n \in 0..MaxTranslate :
         /\ tr_in = [i \in 1..n |-> Analyzed(i, 10 - i)]
         /\ \E kinds \in [1..n -> TranslationKinds \cup {"raises"}] :
              tr_backends = [i \in 1..n |-> TranslationBackend(kinds[i], i)]
    /\ tr_out = <<>> /\ tr_done = FALSE /\ tr_message = None

Translate ==
    /\ ~tr_done
    /\ tr_out' = translate_ranked_news(tr_in, tr_backends)
    /\ tr_done' = TRUE
    /\ UNCHANGED <<tr_in, tr_backends, tr_message>>

\* _format_message: format_final_message on the translated lines
FormatMessage ==
    /\ tr_done /\ IsNone(tr_message)
    /\ tr_message' = [parts |-> format_final_message(tr_out)]
    /\ UNCHANGED <<tr_in, tr_backends, tr_out, tr_done>>

InitTranslate == trInit /\ plIdle /\ anIdle /\ rkIdle /\ ddIdle /\ clIdle /\ stIdle /\ scIdle /\ llIdle /\ apIdle
NextTranslate ==
    \/ Translate /\ UNCHANGED <<plVars, anVars, rkVars, ddVars, clVars, stVars, scVars, llVars, apVars>>
    \/ FormatMessage /\ UNCHANGED <<plVars, anVars, rkVars, ddVars, clVars, stVars, scVars, llVars, apVars>>
SpecTranslate == InitTranslate /\ [][NextTranslate]_vars

\* the third '|'-delimited field of an emitted line holds a Thai character
SummaryIsThai(line) ==
    LET at == {i \in 1..Len(line) : line[i] = "|"}
        second == {i \in at : Cardinality({j \in at : j < i}) = 1}
        third == {i \in at : Cardinality({j \in at : j < i}) = 2}
    IN  /\ second # {}
        /\ LET from == CHOOSE i \in second : TRUE
               to == IF third = {} THEN Len(line) + 1 ELSE CHOOSE i \in third : TRUE
           IN  \E k \in (from + 1)..(to - 1) : line[k] = "T"

\* C12: translate_ranked_news emits no line whose third '|'-delimited field
\* holds no Thai character; an article whose line fails validation and
\* reconstruction is left out
C12_EmittedSummaryIsThai ==
    tr_done => \A i \in 1..Len(tr_out) : SummaryIsThai(tr_out[i])

-----------------------------------------------------------------------------
(* run_complete_pipeline applied to drawn results of its stages.  No run of  *)
(* the program passes step 2 (NoRunSucceeds); here steps 1 and 2 return drawn *)
(* lists, so that the paths after them are taken.                            *)

\* the i-th of a run of articles with titles and URLs of their own
StoryTag(i) ==
    <<LowerCase[((i - 1) % 26) + 1]>> \o (IF i > 26 THEN <<LowerCase[(i - 1) \div 26]>> ELSE <<>>)

Story(i) ==
    Article(<<"S","t","o","c","k"," ","n","e","w","s"," ">> \o StoryTag(i),
            <<"u", "/">> \o StoryTag(i), SrcReuters)

\* what the collectors can do in a run: the scenarios of the orchestrator, or
\* one collector raising and the other delivering n articles
StageCollectorScenarios ==
    CollectorScenarios
    \cup {<<Raises, Returns([i \in 1..n |-> Story(i)])>> : n \in 0..MaxStageIn}
    \cup {<<Raises, Returns([i \in 1..(ANALYZE_LIMIT + 1) |-> Story(i)])>>}

\* an article as _parse_analysis_response combines it
AnalyzedOf(article, score) ==
    [original_article |-> article,
     analysis |-> [impact_score |-> score],
     combined_score |-> score]

\* an analyzed article whose analysis holds no impact_score
AnalyzedUnscored(article) ==
    [original_article |-> article,
     analysis |-> [tickers |-> <<>>],
     combined_score |-> 5]

stInit ==
    /\ st_outcomes \in StageCollectorScenarios
    /\ \E k \in 0..MaxStageIn \cup {ANALYZE_LIMIT, ANALYZE_LIMIT + 1}, unscored \in BOOLEAN :
         LET raw_articles == collect_news(st_outcomes)
         IN  /\ k <= Len(Take(raw_articles, ANALYZE_LIMIT))
             /\ unscored => k > 0
             /\ st_analyzed = [i \in 1..k |->
                    IF unscored /\ i = k THEN AnalyzedUnscored(raw_articles[i])
                    ELSE AnalyzedOf(raw_articles[i], 5 + (i % 4))]
    /\ st_rank \in RankOutcomes
    /\ st_trans \in TransOutcomes
    /\ st_raw = <<>> /\ st_result = None /\ st_done = FALSE

\* run_complete_pipeline, with the list step 2 returns drawn
RunStages ==
    /\ ~st_done
    /\ st_raw' = collect_news(st_outcomes)
    /\ st_result' = run_complete_pipeline(collect_news(st_outcomes), st_analyzed,
                                          st_rank, st_trans, Elapsed)
    /\ st_done' = TRUE
    /\ UNCHANGED <<st_outcomes, st_analyzed, st_rank, st_trans>>

InitStages == stInit /\ plIdle /\ anIdle /\ rkIdle /\ ddIdle /\ clIdle /\ trIdle /\ scIdle /\ llIdle /\ apIdle
NextStages ==
    \/ RunStages /\ UNCHANGED <<plVars, anVars, rkVars, ddVars, clVars, trVars, scVars, llVars, apVars>>
SpecStages == InitStages /\ [][NextStages]_vars

\* every analyzed article carries the impact_score it was kept for
AllScored ==
    \A i \in 1..Len(st_analyzed) : "impact_score" \in DOMAIN st_analyzed[i].analysis

\* C13: once Analyzing has returned a non-empty list, no outcome of Ranking or
\* Translating (an exception, an empty output, a malformed response) fails the
\* run: success = true, with final_ranked and thai_translated reduced,
\* possibly to 0
C13_RankTranslateDegrade ==
    (st_done /\ st_analyzed # <<>> /\ AllScored) =>
        /\ st_result.success = TRUE
        /\ st_result.final_ranked <= Len(st_analyzed)
        /\ st_result.thai_translated <= st_result.final_ranked
        /\ st_rank.raises => st_result.final_ranked = 0
        /\ st_trans.raises => st_result.thai_translated = 0

\* the ranker raised in a run that had analyzed articles, and the run returned
C13_Witness ==
    /\ st_done /\ Len(st_analyzed) > 10 /\ AllScored
    /\ st_rank.raises
    /\ st_result.success /\ st_result.final_ranked = 0
    /\ st_result.thai_translated = 0

\* C14: whatever fails in a run (a collector raising, a model call raising, a
\* malformed model output, a summary helper raising), run_complete_pipeline
\* returns a result with a boolean success, and a failed result carries a
\* non-empty error
C14_ResultAlwaysReturned ==
    st_done =>
        /\ ~IsNone(st_result)
        /\ st_result.success \in BOOLEAN
        /\ ~st_result.success =>
              "error" \in DOMAIN st_result /\ st_result.error # ""

\* a collector raised, the ranking call raised, and the summary of the analysis
\* raised: the run returned a failure
C14_Witness ==
    /\ st_done
    /\ \E i \in 1..Len(st_outcomes) : st_outcomes[i].raised
    /\ st_rank.backend.raised
    /\ st_analyzed # <<>> /\ ~AllScored
    /\ ~st_result.success /\ st_result.error = PipelineError

\* C18: the status query reports, for every registered collector, the state
\* the collector itself reports; a collector that works normally is never
\* reported with status 'error'.
C18_StatusIsCollectorsOwn ==
    ~IsNone(cl_status) =>
        \A i \in 1..Len(cl_names) :
            /\ cl_status.entries[i][1] = cl_names[i]
            /\ cl_status.entries[i][2].status = cl_own[i]

\* C19: format_final_message answers zero translated lines with the fixed
\* placeholder; the bulletin is never empty; for a non-empty list it holds the
\* lines in input order between a header that states their count and the
\* footer.
C19_BulletinShape ==
    ~IsNone(tr_message) =>
        LET msg == tr_message.parts
            n == Len(tr_out)
        IN  /\ msg # <<>>
            /\ n = 0 => msg = <<[part |-> "no_news_placeholder"]>>
            /\ n > 0 =>
                  /\ Len(msg) = n + 2
                  /\ msg[1] = [part |-> "header", count |-> n]
                  /\ \A i \in 1..n : msg[i + 1] = [part |-> "line", line |-> tr_out[i]]
                  /\ msg[n + 2] = [part |-> "footer"]

\* a bulletin was built from two or more translated lines
C19_Witness ==
    /\ ~IsNone(tr_message)
    /\ Len(tr_out) >= 2
    /\ tr_message.parts[1].part = "header"

\* the articles of dd_in at the positions K, in input order
Restrict(K) == [k \in 1..Cardinality(K) |-> dd_in[CHOOSE i \in K : Cardinality({j \in K : j < i}) = k - 1]]

SameTitleOrUrl(a, b) == norm_title(a) = norm_title(b) \/ norm_url(a) = norm_url(b)

\* what every output of _remove_global_duplicates satisfies: no two articles
\* share a normalized title or a normalized URL, and every title has at least
\* 10 characters
OutputIsUnique ==
    /\ \A i, j \in 1..Len(dd_out) : i # j =>
          /\ norm_title(dd_out[i]) # norm_title(dd_out[j])
          /\ norm_url(dd_out[i]) # norm_url(dd_out[j])
    /\ \A i \in 1..Len(dd_out) :
          /\ Len(norm_title(dd_out[i])) >= MIN_TITLE_LEN
          /\ Len(dd_out[i].title) >= MIN_TITLE_LEN

\* C20 as stated: the output is an order-preserving subsequence of the input,
\* no two of its articles share a normalized title or URL, every title has at
\* least 10 characters, and of the input articles with the same normalized
\* title or URL the one kept is the first in input order.
C20_KeepsFirstOfAll ==
    dd_done >= 1 =>
        /\ OutputIsUnique
        /\ \E K \in SUBSET (1..Len(dd_in)) :
              /\ dd_out = Restrict(K)
              /\ \A k \in K : \A i \in 1..(k - 1) : ~SameTitleOrUrl(dd_in[i], dd_in[k])

\* C20 (amended): the output is an order-preserving subsequence of the input,
\* no two of its articles share a normalized title or URL, every title has at
\* least 10 characters, and an article is kept exactly when its normalized
\* title has at least 10 characters and no article kept before it has the same
\* normalized title or URL.
C20_KeepsFirstOfKept ==
    dd_done >= 1 =>
        /\ OutputIsUnique
        /\ \E K \in SUBSET (1..Len(dd_in)) :
              /\ dd_out = Restrict(K)
              /\ \A i \in 1..Len(dd_in) :
                    i \in K <=>
                        /\ Len(norm_title(dd_in[i])) >= MIN_TITLE_LEN
                        /\ \A j \in K : j < i => ~SameTitleOrUrl(dd_in[j], dd_in[i])

\* an article was dropped for the URL of a kept one, and a later article with
\* the dropped article's title was kept
C20_Witness ==
    /\ dd_done >= 1
    /\ Len(dd_out) >= 2
    /\ \E i, j \in 1..Len(dd_in) :
          /\ i < j
          /\ \A k \in 1..Len(dd_out) : dd_out[k] # dd_in[i]
          /\ \E k \in 1..Len(dd_out) : dd_out[k] = dd_in[j]
          /\ norm_title(dd_in[i]) = norm_title(dd_in[j])
          /\ Len(norm_title(dd_in[i])) >= MIN_TITLE_LEN

\* the rank whose marker '[r.]' a line begins with, 0 when it begins with none
MarkerRank(line) ==
    IF line # <<>> /\ \E r \in 1..Len(MarkerText) : line[1] = Marker(r)
    THEN CHOOSE r \in 1..Len(MarkerText) : line[1] = Marker(r)
    ELSE 0

NumFields(line) == Cardinality({i \in 1..Len(line) : line[i] = "|"}) + 1

\* C24: every line translate_ranked_news emits begins with the marker '[r.]'
\* of its article, r the article's position in the ranker output and at most
\* 10, and has exactly seven '|'-delimited fields, whether the model's line was
\* taken or the line was reconstructed; the emitted lines have strictly
\* increasing r.
C24_SevenFieldsAndMarker ==
    tr_done =>
        /\ \A k \in 1..Len(tr_out) :
              /\ MarkerRank(tr_out[k]) \in 1..Min(Len(tr_in), 10)
              /\ NumFields(tr_out[k]) = 7
        /\ \A k \in 1..(Len(tr_out) - 1) : MarkerRank(tr_out[k]) < MarkerRank(tr_out[k + 1])

C17_EveryResultRecordsStages ==
    st_done =>
        /\ st_result.raw_collected = Len(st_raw)
        /\ st_raw # <<>> => st_result.analyzed_count = Len(st_analyzed)
        /\ st_result.processing_time = Elapsed

\* ---------------------------------------------------------------------------
\* The scheduler thread by thread (specification SpecScheduler).
\* start_scheduler and stop_scheduler are called by the main thread; every
\* start that finds the scheduler stopped creates a daemon thread that runs
\* _run_scheduler. The loop threads poll the jobs of the `schedule` module,
\* and a job that is due runs _process_and_broadcast inside the polling thread.
\* The result of the pipeline run is drawn from the two shapes
\* run_complete_pipeline returns, so that the delivery step is taken.
\* ---------------------------------------------------------------------------
BROADCAST_TIMES == <<"09:00", "13:00", "17:00">>
HOURLY == "hour"

\* the job objects one start_scheduler registers: one per broadcast time, then
\* the hourly health check
RegisteredJobs(gen) == [i \in 1..(Len(BROADCAST_TIMES) + 1) |-> [at |-> IF i <= Len(BROADCAST_TIMES) THEN BROADCAST_TIMES[i] ELSE HOURLY, gen |-> gen]]

JobsOf(jobs) == {jobs[i] : i \in 1..Len(jobs)}

\* Job.should_run of the jobs in the list, ordered by the time they came due
RECURSIVE SortDue(_)
SortDue(due) ==
    IF due = {} THEN <<>>
    ELSE LET first == CHOOSE d \in due : \A e \in due : d.trigger <= e.trigger
         IN  <<first>> \o SortDue(due \ {first})

\* Scheduler.run_pending materialises the runnable jobs before it runs any
runnable_jobs == SortDue({d \in sc_due : d.job \in JobsOf(sc_jobs)})

NewTrigger(job) == [job |-> job, runs |-> 0, late |-> FALSE, results |-> <<>>, handed |-> 0, sent |-> 0]

\* the scheduled time of a registered job arrives
Tick ==
    \E job \in JobsOf(sc_jobs) :
        /\ sc_triggers < MaxTriggers
        /\ \A d \in sc_due : d.job # job
        /\ sc_triggers' = sc_triggers + 1
        /\ sc_due' = sc_due \cup {[job |-> job, trigger |-> sc_triggers + 1]}
        /\ sc_log' = Append(sc_log, NewTrigger(job))
        /\ UNCHANGED <<sc_is_running, sc_jobs, sc_thread, sc_calls>>

StartScheduler ==
    /\ sc_calls.start < MaxCalls
    /\ sc_calls' = [sc_calls EXCEPT !.start = @ + 1]
    /\ IF sc_is_running
       THEN UNCHANGED <<sc_is_running, sc_jobs, sc_thread>>
       ELSE /\ sc_jobs' = sc_jobs \o RegisteredJobs(sc_calls.start + 1)
            /\ sc_is_running' = TRUE
            /\ sc_thread' = [sc_thread EXCEPT ![sc_calls.start + 1] = [pc |-> "while", todo |-> <<>>, job |-> None]]
    /\ UNCHANGED <<sc_due, sc_triggers, sc_log>>

StopScheduler ==
    /\ sc_calls.stop < MaxCalls
    /\ sc_calls' = [sc_calls EXCEPT !.stop = @ + 1]
    /\ sc_is_running' = FALSE
    /\ sc_jobs' = <<>>
    /\ UNCHANGED <<sc_due, sc_thread, sc_triggers, sc_log>>

\* _run_scheduler: the test of the while loop and the start of run_pending
RunScheduler(t) ==
    /\ sc_thread[t].pc = "while"
    /\ IF sc_is_running
       THEN sc_thread' = [sc_thread EXCEPT ![t] = [pc |-> "run_pending", todo |-> runnable_jobs, job |-> None]]
       ELSE sc_thread' = [sc_thread EXCEPT ![t] = [pc |-> "dead", todo |-> <<>>, job |-> None]]
    /\ UNCHANGED <<sc_is_running, sc_jobs, sc_due, sc_calls, sc_triggers, sc_log>>

\* run_pending takes the next runnable job and calls its function, or
\* returns to the loop, which sleeps
RunPendingNext(t) ==
    /\ sc_thread[t].pc = "run_pending"
    /\ IF sc_thread[t].todo = <<>>
       THEN /\ sc_thread' = [sc_thread EXCEPT ![t].pc = "sleep"]
            /\ UNCHANGED sc_log
       ELSE LET d == Head(sc_thread[t].todo)
            IN  /\ sc_thread' = [sc_thread EXCEPT ![t] = [pc |-> IF d.job.at = HOURLY THEN "health_check" ELSE "process", todo |-> Tail(sc_thread[t].todo), job |-> d]]
                /\ sc_log' = [sc_log EXCEPT ![d.trigger].runs = @ + 1, ![d.trigger].late = @ \/ ~sc_is_running]
    /\ UNCHANGED <<sc_is_running, sc_jobs, sc_due, sc_calls, sc_triggers>>

\* Job.run after the job function returned: last_run and next_run are set
JobDone(t) ==
    /\ sc_due' = sc_due \ {sc_thread[t].job}
    /\ sc_thread' = [sc_thread EXCEPT ![t].pc = "run_pending", ![t].job = None]

\* _health_check
HealthCheck(t) ==
    /\ sc_thread[t].pc = "health_check"
    /\ JobDone(t)
    /\ UNCHANGED <<sc_is_running, sc_jobs, sc_calls, sc_triggers, sc_log>>

\* _process_and_broadcast: run_complete_pipeline returns
ProcessReturn(t) ==
    /\ sc_thread[t].pc = "process"
    /\ \E success \in BOOLEAN :
        LET n == sc_thread[t].job.trigger
        IN  IF success
            THEN /\ sc_log' = [sc_log EXCEPT ![n].results = Append(@, success), ![n].handed = @ + 1]
                 /\ sc_thread' = [sc_thread EXCEPT ![t].pc = "broadcast"]
                 /\ UNCHANGED sc_due
            ELSE /\ sc_log' = [sc_log EXCEPT ![n].results = Append(@, success)]
                 /\ JobDone(t)
    /\ UNCHANGED <<sc_is_running, sc_jobs, sc_calls, sc_triggers>>

LineOutcomes == {"unavailable", "sent", "not_sent", "raises"}

\* _broadcast_to_line: nothing is sent without a pusher, else
\* broadcast_message is called once, whatever it answers
BroadcastToLine(t) ==
    /\ sc_thread[t].pc = "broadcast"
    /\ \E outcome \in LineOutcomes :
        LET n == sc_thread[t].job.trigger
        IN  sc_log' = [sc_log EXCEPT ![n].sent = IF outcome = "unavailable" THEN @ ELSE @ + 1]
    /\ JobDone(t)
    /\ UNCHANGED <<sc_is_running, sc_jobs, sc_calls, sc_triggers>>

\* time.sleep(60) returns
Wake(t) ==
    /\ sc_thread[t].pc = "sleep"
    /\ sc_thread' = [sc_thread EXCEPT ![t].pc = "while"]
    /\ UNCHANGED <<sc_is_running, sc_jobs, sc_due, sc_calls, sc_triggers, sc_log>>

InitScheduler == scInit /\ plIdle /\ anIdle /\ rkIdle /\ ddIdle /\ clIdle /\ trIdle /\ stIdle /\ llIdle /\ apIdle
scOnly == UNCHANGED <<plVars, anVars, rkVars, ddVars, clVars, trVars, stVars, llVars, apVars>>
NextScheduler ==
    \/ StartScheduler /\ scOnly
    \/ StopScheduler /\ scOnly
    \/ Tick /\ scOnly
    \/ \E t \in 1..MaxCalls : RunScheduler(t) /\ scOnly
    \/ \E t \in 1..MaxCalls : RunPendingNext(t) /\ scOnly
    \/ \E t \in 1..MaxCalls : HealthCheck(t) /\ scOnly
    \/ \E t \in 1..MaxCalls : ProcessReturn(t) /\ scOnly
    \/ \E t \in 1..MaxCalls : BroadcastToLine(t) /\ scOnly
    \/ \E t \in 1..MaxCalls : Wake(t) /\ scOnly
SpecScheduler == InitScheduler /\ [][NextScheduler]_vars

\* the runs of trigger n that are still inside a loop thread
InFlight(n) == {t \in 1..MaxCalls : ~IsNone(sc_thread[t].job) /\ sc_thread[t].job.trigger = n /\ sc_thread[t].pc = "process"}
BroadcastTriggers == {n \in 1..Len(sc_log) : sc_log[n].job.at # HOURLY}

\* C15: stopping the scheduler leaves every run that has begun to return and
\* deliver (a begun run has returned or is still running in its thread), and
\* no run begins while the scheduler is stopped.
C15_StopLetsRunFinishAndStartsNone ==
    \A n \in BroadcastTriggers :
        /\ sc_log[n].runs = Len(sc_log[n].results) + Cardinality(InFlight(n))
        /\ ~sc_log[n].late

\* the loop threads that are inside run_pending
Polling == {t \in 1..MaxCalls : sc_thread[t].pc \in {"run_pending", "process", "health_check", "broadcast"}}

\* C29: whatever start_scheduler and stop_scheduler calls were made, at most
\* one loop thread is polling run_pending, the registered jobs are one for each
\* broadcast time and one health check while the scheduler runs and none while
\* it is stopped, and no scheduled time causes more than one pipeline run.
C29_OneLoopOneJobSet ==
    /\ Cardinality(Polling) <= 1
    /\ IF sc_is_running
       THEN \E gen \in 1..MaxCalls : sc_jobs = RegisteredJobs(gen)
       ELSE sc_jobs = <<>>
    /\ \A n \in BroadcastTriggers : sc_log[n].runs <= 1

Successes(results) == Cardinality({i \in 1..Len(results) : results[i]})

\* C16: a scheduled trigger causes one pipeline run and at most one call of
\* broadcast_message; the bulletin is handed to delivery only after a run that
\* succeeded; nothing is run again or sent again for the same trigger.
C16_OneRunOneBroadcastPerTrigger ==
    \A n \in BroadcastTriggers :
        /\ sc_log[n].runs <= 1
        /\ sc_log[n].sent <= 1
        /\ sc_log[n].handed <= Successes(sc_log[n].results)
        /\ sc_log[n].sent <= sc_log[n].handed

\* ---------------------------------------------------------------------------
\* MultiLLMManager.analyze_news and the WebSearchManager behind it
\* (specification SpecLLM). Time is counted in half hours.
\* ---------------------------------------------------------------------------
\* cache_ttl = timedelta(hours=1)
CACHE_TTL == 2
\* UNCERTAINTY_THRESHOLD = 0.7, confidence counted in hundredths
UNCERTAINTY_THRESHOLD == 70
HIGH_IMPACT_THRESHOLD == 8
MIN_TICKERS_REQUIRED == 1
\* `if len(context) > 100`, `original_confidence + 0.2`, default 0.5, cap 1.0
CONFIDENCE_DEFAULT == 50
CONFIDENCE_BOOST == 20
CONFIDENCE_MAX == 100

\* d[k] = v of a dict
SetKey(d, k, v) == [x \in DOMAIN d \cup {k} |-> IF x = k THEN v ELSE d[x]]

\* WebSearchManager.should_search
should_search(enabled, analysis) ==
    /\ enabled
    /\ \/ Get(analysis, "confidence", CONFIDENCE_MAX) < UNCERTAINTY_THRESHOLD
       \/ Get(analysis, "impact_score", 0) >= HIGH_IMPACT_THRESHOLD
       \/ Len(Get(analysis, "tickers", <<>>)) < MIN_TICKERS_REQUIRED
       \/ Get(analysis, "category", "") \in {"uncertain", "unknown", ""}
       \/ Get(analysis, "flags", {}) \cap {"truncated", "incomplete"} # {}

\* WebSearchManager._get_cache_key: f"{title[:50]}_{url[:50]}"
get_cache_key(article) ==
    <<Take(Get(article, "title", <<>>), 50), Take(Get(article, "url", <<>>), 50)>>

\* a variant of NotExpired that still serves an entry whose age is the TTL
NotExpiredInclusive(now, timestamp) == now - timestamp <= CACHE_TTL

\* `datetime.now() - timestamp < self.cache_ttl`
NotExpired(now, timestamp) == now - timestamp < CACHE_TTL

\* WebSearchManager._get_cached: the entry, or None; an expired entry is
\* deleted
get_cached(cache, key, now) ==
    IF \E e \in cache : e.key = key
    THEN LET cached == CHOOSE e \in cache : e.key = key
         IN  IF NotExpired(now, cached.timestamp)
             THEN [cached |-> cached, cache |-> cache]
             ELSE [cached |-> None, cache |-> cache \ {cached}]
    ELSE [cached |-> None, cache |-> cache]

\* WebSearchManager._set_cached
set_cached(cache, key, context, now) ==
    {e \in cache : e.key # key} \cup {[key |-> key, context |-> context, timestamp |-> now]}

\* WebSearchManager._merge_analysis
merge_analysis(analysis, cached) ==
    SetKey(SetKey(SetKey(analysis, "web_search_context", cached.context), "enhanced_by_search", TRUE), "from_cache", TRUE)

\* the analysis enhanced with a context the search client found
EnhancedBySearch(analysis, context) ==
    LET enhanced == SetKey(SetKey(SetKey(analysis, "web_search_context", context), "enhanced_by_search", TRUE), "search_provider", "DuckDuckGo")
    IN  IF context = "long"
        THEN SetKey(enhanced, "confidence", Min(Get(enhanced, "confidence", CONFIDENCE_DEFAULT) + CONFIDENCE_BOOST, CONFIDENCE_MAX))
        ELSE enhanced

\* what get_context_for_article does on a call: a context of more than 100
\* characters, a shorter one, or nothing (the empty string, or an exception:
\* both leave the analysis and the cache as they are)
SearchOutcomes == {"long", "short", "nothing"}

\* one lookup of enhance_analysis, as the log keeps it
LookupEvent(key, cache, now, served, searched) ==
    [key |-> key, served |-> served, searched |-> searched, now |-> now,
     stamps |-> {e.timestamp : e \in {e \in cache : e.key = key}}]

\* WebSearchManager.enhance_analysis: the analysis returned, the cache after,
\* and what was looked up
enhance_analysis(enabled, article, analysis, cache, now, found) ==
    IF ~enabled \/ ~should_search(enabled, analysis)
    THEN [analysis |-> analysis, cache |-> cache, log |-> <<>>]
    ELSE LET cache_key == get_cache_key(article)
             got == get_cached(cache, cache_key, now)
         IN  IF ~IsNone(got.cached)
             THEN [analysis |-> merge_analysis(analysis, got.cached), cache |-> got.cache,
                   log |-> <<LookupEvent(cache_key, cache, now, TRUE, FALSE)>>]
             ELSE IF found = "nothing"
             THEN [analysis |-> analysis, cache |-> got.cache,
                   log |-> <<LookupEvent(cache_key, cache, now, FALSE, TRUE)>>]
             ELSE [analysis |-> EnhancedBySearch(analysis, found),
                   cache |-> set_cached(got.cache, cache_key, found, now),
                   log |-> <<LookupEvent(cache_key, cache, now, FALSE, TRUE)>>]

\* the enhancement loop of analyze_news over analyzed_articles
RECURSIVE EnhanceLoop(_, _, _, _, _)
EnhanceLoop(items, founds, enabled, cache, now) ==
    IF items = <<>> THEN [items |-> <<>>, cache |-> cache, log |-> <<>>]
    ELSE LET item == Head(items)
             analysis == Get(item, "analysis", <<>>)
             step == IF should_search(enabled, analysis)
                     THEN enhance_analysis(enabled, Get(item, "original_article", <<>>), analysis, cache, now, Head(founds))
                     ELSE [analysis |-> analysis, cache |-> cache, log |-> <<>>]
             new_item == IF Get(step.analysis, "enhanced_by_search", FALSE)
                         THEN SetKey(item, "analysis", step.analysis)
                         ELSE item
             rest == EnhanceLoop(Tail(items), Tail(founds), enabled, step.cache, now)
         IN  [items |-> <<new_item>> \o rest.items, cache |-> rest.cache, log |-> step.log \o rest.log]

\* MistralAIClient.analyze_news_with_search: one analysis per article, parsed
\* from the model's answer or, when the client is unavailable or raises, the
\* fallback analysis
MistralAnalysis(kind) ==
    IF kind = "parsed"
    THEN [tickers |-> <<"AAPL">>, impact_score |-> 9, category |-> "earnings"]
    ELSE [tickers |-> <<"UNKNOWN">>, impact_score |-> 5, category |-> "fallback"]

analyze_news_with_search(articles, kind) ==
    [i \in 1..Len(articles) |->
        [original_article |-> articles[i], analysis |-> MistralAnalysis(kind),
         enhanced_by_mistral |-> (kind = "parsed")]]

\* LangChainStockAnalyzer.analyze_article: article.get('content', '')[:1000]
\* raises on a content of None, and the except returns None
analyze_article(article) ==
    IF IsNone(Get(article, "content", Str(<<>>))) THEN None
    ELSE [original_article |-> [title |-> Get(article, "title", <<>>), source |-> Get(article, "source", <<>>)],
          analysis |-> [tickers |-> <<"MSFT", "AAPL">>, impact_score |-> 8, category |-> "tech-ai"]]

\* the loop over the articles in the LangChain branch
RECURSIVE LangChainLoop(_)
LangChainLoop(articles) ==
    IF articles = <<>> THEN <<>>
    ELSE LET analysis == analyze_article(Head(articles))
         IN  (IF IsNone(analysis) THEN <<>> ELSE <<analysis>>) \o LangChainLoop(Tail(articles))

\* MockLLMProvider.analyze_articles
mock_analyze_articles(articles) ==
    [i \in 1..Len(articles) |->
        [original_article |-> articles[i],
         analysis |-> [tickers |-> <<"MOCK">>, impact_score |-> Min(8, Len(articles) - (i - 1)), category |-> "mock-analysis"],
         enhanced_by_mistral |-> FALSE]]

\* _initialize_providers: LangChain when it was registered, then the mock
fallback_providers(langchain) ==
    (IF langchain THEN <<"LangChainStockAnalyzer">> ELSE <<>>) \o <<"MockLLMProvider">>

\* the loop over the fallback providers: both branches end with break
RECURSIVE FallbackLoop(_, _)
FallbackLoop(providers, articles) ==
    IF providers = <<>> THEN <<>>
    ELSE IF Head(providers) = "LangChainStockAnalyzer" THEN LangChainLoop(articles)
    ELSE IF Head(providers) = "MockLLMProvider" THEN mock_analyze_articles(articles)
    ELSE FallbackLoop(Tail(providers), articles)

\* analyze_news up to the enhancement: the primary provider, then the fallbacks
ProviderChain(articles, primary, langchain, kind) ==
    LET results == IF primary = "mistral" THEN analyze_news_with_search(articles, kind) ELSE <<>>
    IN  IF results # <<>> THEN results
        ELSE FallbackLoop(fallback_providers(langchain), articles)

\* MultiLLMManager.analyze_news
analyze_news(articles, primary, langchain, kind, founds, enabled, cache, now) ==
    IF articles = <<>> THEN [items |-> <<>>, cache |-> cache, log |-> <<>>]
    ELSE LET analyzed_articles == ProviderChain(articles, primary, langchain, kind)
         IN  IF enabled /\ analyzed_articles # <<>>
             THEN EnhanceLoop(analyzed_articles, founds, enabled, cache, now)
             ELSE [items |-> analyzed_articles, cache |-> cache, log |-> <<>>]

\* articles as the collectors deliver them; NewsAPI passes a null content on
LlmArticle(article, content) == [title |-> article.title, url |-> article.url, source |-> article.source, content |-> content]
LlmArticles == {LlmArticle(ArtApple, Str(<<"a">>)), LlmArticle(ArtFed, None)}

llInit ==
    /\ ll_primary \in {"absent", "mistral"}
    /\ ll_langchain \in BOOLEAN
    /\ ll_search \in BOOLEAN
    /\ ll_cache = {} /\ ll_now = 0
    /\ ll_in = <<>> /\ ll_out = <<>> /\ ll_log = <<>>

AnalyzeNews ==
    /\ \E articles \in SeqsUpTo(LlmArticles, Cardinality(LlmArticles)) :
       \E kind \in (IF ll_primary = "mistral" THEN {"parsed", "fallback"} ELSE {"fallback"}) :
       \E founds \in (IF ll_search THEN [1..Len(articles) -> SearchOutcomes] ELSE {[i \in 1..Len(articles) |-> "nothing"]}) :
       \E done \in {analyze_news(articles, ll_primary, ll_langchain, kind, founds, ll_search, ll_cache, ll_now)} :
             /\ ll_in' = articles
             /\ ll_out' = done.items
             /\ ll_cache' = done.cache
             /\ ll_log' = done.log
    /\ UNCHANGED <<ll_primary, ll_langchain, ll_search, ll_now>>

\* half an hour passes
ClockLLM ==
    /\ ll_now < MaxClock
    /\ ll_now' = ll_now + 1
    /\ UNCHANGED <<ll_primary, ll_langchain, ll_search, ll_cache, ll_in, ll_out, ll_log>>

llOnly == UNCHANGED <<plVars, anVars, rkVars, ddVars, clVars, trVars, stVars, scVars, apVars>>
InitLLM == llInit /\ plIdle /\ anIdle /\ rkIdle /\ ddIdle /\ clIdle /\ trIdle /\ stIdle /\ scIdle /\ apIdle
NextLLM ==
    \/ AnalyzeNews /\ llOnly
    \/ ClockLLM /\ llOnly
SpecLLM == InitLLM /\ [][NextLLM]_vars

\* C26: analyze_news tries the primary provider, then each fallback in turn,
\* and moves on whenever one raises or yields no analyzed article; the mock
\* provider is registered last, so a non-empty input gives a non-empty result.
C26_NonEmptyInNonEmptyOut ==
    ll_in # <<>> => ll_out # <<>>

\* C27: the web-search cache serves no entry whose age is the TTL or more, and
\* enhance_analysis calls the search client only when the cache holds no
\* unexpired entry for the article; a lookup deletes an expired entry.
C27_CacheRespectsTtl ==
    /\ \A k \in 1..Len(ll_log) :
          LET ev == ll_log[k]
              fresh == {t \in ev.stamps : ev.now - t < CACHE_TTL}
          IN  /\ ev.served => fresh # {}
              /\ ev.searched => fresh = {}
    /\ \A k \in 1..Len(ll_log) :
          \A e \in ll_cache : e.key = ll_log[k].key => ll_log[k].now - e.timestamp < CACHE_TTL
    /\ \A e, f \in ll_cache : e.key = f.key => e = f

\* an entry was served from the cache at age 1, and an entry of age 2 was
\* looked up, not served, and searched again
C27_Witness ==
    /\ \E k \in 1..Len(ll_log) : ll_log[k].served /\ (ll_log[k].now - 1) \in ll_log[k].stamps
    /\ \E k \in 1..Len(ll_log) : ll_log[k].searched /\ (ll_log[k].now - CACHE_TTL) \in ll_log[k].stamps

\* ---------------------------------------------------------------------------
\* The API server's news cache (specification SpecApi). Time is counted in
\* periods of five minutes.
\* ---------------------------------------------------------------------------
\* timedelta(minutes=15)
CACHE_MINUTES == 3

\* what a run of the pipeline meets: the articles collected, the list step 2
\* returns, and the outcomes of ranking and translating
ApiRuns ==
    UNION {{[raw |-> raw_articles, analyzed |-> [i \in 1..k |-> AnalyzedOf(raw_articles[i], 5 + i)], rank |-> rank, trans |-> trans] :
               k \in 0..Len(raw_articles), rank \in {o \in RankOutcomes : o.fails \/ o.raises},
               trans \in {TransOutcome(<<>>, TRUE), TransOutcome([i \in 1..TRANSLATE_TOP |-> TranslationBackend("good", i)], FALSE)}} :
           raw_articles \in {<<>>, <<Story(1), Story(2)>>}}

\* the cache test of get_latest_news
CacheIsFresh(cache, now) ==
    /\ ~IsNone(cache.last_update)
    /\ now - cache.last_update.at < CACHE_MINUTES
    /\ cache.news # <<>>

\* the update both endpoints make after a successful run
UpdateCache(results, now) ==
    [last_update |-> [at |-> now], news |-> Get(results, "analyzed_articles", <<>>)]

\* GET /api/news/latest
GetLatestNews ==
    /\ ap_requests < MaxRequests
    /\ ap_requests' = ap_requests + 1
    /\ IF CacheIsFresh(ap_cache, ap_now)
       THEN /\ ap_resp' = [endpoint |-> "latest", status |-> 200, success |-> TRUE, cached |-> TRUE,
                           news |-> ap_cache.news, ran |-> FALSE, before |-> ap_cache.last_update, now |-> ap_now]
            /\ UNCHANGED <<ap_cache, ap_runs, ap_fresh>>
       ELSE \E run \in ApiRuns :
              /\ LET results == run_complete_pipeline(run.raw, run.analyzed, run.rank, run.trans, Elapsed)
                 IN  /\ ap_fresh' = [results |-> results, analyzed_articles |-> run.analyzed]
                     /\ ap_runs' = ap_runs + 1
                     /\ IF Get(results, "success", FALSE)
                        THEN /\ ap_cache' = UpdateCache(results, ap_now)
                             /\ ap_resp' = [endpoint |-> "latest", status |-> 200, success |-> TRUE, cached |-> FALSE,
                                            news |-> UpdateCache(results, ap_now).news, ran |-> TRUE,
                                            before |-> ap_cache.last_update, now |-> ap_now]
                        ELSE /\ ap_cache' = ap_cache
                             /\ ap_resp' = [endpoint |-> "latest", status |-> 500, success |-> FALSE, cached |-> FALSE,
                                            news |-> <<>>, ran |-> TRUE,
                                            before |-> ap_cache.last_update, now |-> ap_now]
    /\ UNCHANGED ap_now

\* GET /api/refresh
RefreshNews ==
    /\ ap_requests < MaxRequests
    /\ ap_requests' = ap_requests + 1
    /\ \E run \in ApiRuns :
         /\ LET results == run_complete_pipeline(run.raw, run.analyzed, run.rank, run.trans, Elapsed)
            IN  /\ ap_fresh' = [results |-> results, analyzed_articles |-> run.analyzed]
                /\ ap_runs' = ap_runs + 1
                /\ IF Get(results, "success", FALSE)
                   THEN /\ ap_cache' = UpdateCache(results, ap_now)
                        /\ ap_resp' = [endpoint |-> "refresh", status |-> 200, success |-> TRUE, cached |-> FALSE,
                                       news |-> <<>>, ran |-> TRUE,
                                       before |-> ap_cache.last_update, now |-> ap_now]
                   ELSE /\ ap_cache' = ap_cache
                        /\ ap_resp' = [endpoint |-> "refresh", status |-> 500, success |-> FALSE, cached |-> FALSE,
                                       news |-> <<>>, ran |-> TRUE,
                                       before |-> ap_cache.last_update, now |-> ap_now]
    /\ UNCHANGED ap_now

\* five minutes pass
ClockApi ==
    /\ ap_now < MaxApiClock
    /\ ap_now' = ap_now + 1
    /\ UNCHANGED <<ap_cache, ap_runs, ap_requests, ap_fresh, ap_resp>>

apOnly == UNCHANGED <<plVars, anVars, rkVars, ddVars, clVars, trVars, stVars, scVars, llVars>>
InitApi == apInit /\ plIdle /\ anIdle /\ rkIdle /\ ddIdle /\ clIdle /\ trIdle /\ stIdle /\ scIdle /\ llIdle
NextApi ==
    \/ GetLatestNews /\ apOnly
    \/ RefreshNews /\ apOnly
    \/ ClockApi /\ apOnly
SpecApi == InitApi /\ [][NextApi]_vars

====
